---- MODULE Spec2Model ----
(***************************************************************************)
(* The approval decision pipeline of claude-code-boost (ccb):              *)
(* `ccb auto-approve-tools` is run once per tool request as its own OS     *)
(* process. Every process shares the per-installation directory holding    *)
(* config.json, approval_cache.json and approval.jsonl.                    *)
(*                                                                         *)
(* Strings that the code builds by concatenation are sequences of text     *)
(* segments, so that `${reason} (cached)` is reason \o <<" (cached)">>.    *)
(* A JSON object is a function from its keys; tool_input, whose key order  *)
(* decides its serialization, is a sequence of <<key, value>> pairs.       *)
(***************************************************************************)
EXTENDS Integers, Sequences, FiniteSets, TLC

\* Number of process launches explored (also the range of the logical clock).
MaxInvocations == 2

Procs == {1, 2}

Null == [tag |-> "null"]

----------------------------------------------------------------------------
(* Request data *)

InputLs == << <<"command", "ls">> >>
InputRm == << <<"command", "rm -rf /">> >>
ToolInputs == {InputLs, InputRm}

WorkingDirs == {"/p", "/p/"}

SessionIds == {"s1"}

FAST_APPROVE_TOOLS ==
  {"Read", "LS", "Glob", "Grep", "WebFetch", "WebSearch", "NotebookRead",
   "TodoWrite", "Task"}

SAFE_WRITE_TOOLS == {"Write", "Edit", "MultiEdit", "NotebookEdit"}

OtherTools == {"ExitPlanMode", "Bash"}

ToolNames == FAST_APPROVE_TOOLS \cup SAFE_WRITE_TOOLS \cup OtherTools

Str(s) == [t |-> "string", v |-> s]
Obj(o) == [t |-> "object", v |-> o]
Num(n) == [t |-> "number", v |-> n]

EnvelopeFields == {"session_id", "transcript_path", "tool_name", "tool_input"}

\* A well-formed input envelope.
Envelope(session, tool, input) ==
  [json |-> TRUE,
   obj |-> [f \in EnvelopeFields |->
              CASE f = "session_id" -> Str(session)
                [] f = "transcript_path" -> Str("/t.jsonl")
                [] f = "tool_name" -> Str(tool)
                [] f = "tool_input" -> Obj(input)]]

WellFormedEnvelopes ==
  {Envelope(s, t, i) : s \in SessionIds, t \in ToolNames, i \in ToolInputs}

Restrict(f, S) == [x \in S |-> f[x]]

\* Envelopes that are not JSON, lack a field, or carry a field of the wrong type.
MalformedEnvelopes ==
  LET base == Envelope("s1", "Read", InputLs) IN
  {[json |-> FALSE, obj |-> << >>]}
    \cup {[base EXCEPT !.obj = Restrict(base.obj, EnvelopeFields \ {f})] :
            f \in EnvelopeFields}
    \cup {[base EXCEPT !.obj["tool_name"] = Num(1)],
          [base EXCEPT !.obj["tool_input"] = Str("ls")]}

Envelopes == WellFormedEnvelopes \cup MalformedEnvelopes

Launch(stdin, cwd) == [stdin |-> stdin, cwd |-> cwd]

\* The launches explored: every tool name; both inputs and both directories for
\* a tool of each fast-path rule and for the tool no rule resolves.
Launches ==
  {Launch(Envelope(s, t, InputLs), "/p") : s \in SessionIds, t \in ToolNames}
  \cup {Launch(Envelope(s, t, i), d) :
          s \in SessionIds, t \in {"Read", "Write"}, i \in {InputRm}, d \in {"/p/"}}
  \cup {Launch(Envelope(s, t, i), d) :
          s \in SessionIds, t \in {"ExitPlanMode"}, i \in {InputLs}, d \in WorkingDirs}
  \cup {Launch(Envelope(s, t, i), d) :
          s \in SessionIds, t \in {"Bash"}, i \in ToolInputs, d \in WorkingDirs}
  \cup {Launch(e, "/p") : e \in MalformedEnvelopes}

\* Mutant: transcript_path, which the command never reads, is not required.
HookInputValid_NoTranscript(obj) ==
  /\ (EnvelopeFields \ {"transcript_path"}) \subseteq DOMAIN obj
  /\ obj["session_id"].t = "string"
  /\ obj["tool_name"].t = "string"
  /\ obj["tool_input"].t = "object"

\* HookInputSchema.safeParse(...).success
HookInputValid(obj) ==
  /\ EnvelopeFields \subseteq DOMAIN obj
  /\ obj["session_id"].t = "string"
  /\ obj["transcript_path"].t = "string"
  /\ obj["tool_name"].t = "string"
  /\ obj["tool_input"].t = "object"

\* Mutant: the verdict written is allow, whatever was decided.
HookOutput_Allow(decision, reason) ==
  [permissionDecision |-> "allow", permissionDecisionReason |-> reason]

HookOutput(decision, reason) ==
  [permissionDecision |-> decision, permissionDecisionReason |-> reason]

\* Mutant: the safe-write rule is missing.
shouldFastApprove_NoSafeWrite(toolName, toolInput) ==
  IF toolName = "ExitPlanMode"
  THEN HookOutput("ask",
         <<"ExitPlanMode requires user confirmation before proceeding">>)
  ELSE IF toolName \in FAST_APPROVE_TOOLS
  THEN HookOutput("allow", <<toolName, " is a safe read-only operation">>)
  ELSE Null

\* Mutant: the ExitPlanMode rule is missing, so the request falls to the cache.
shouldFastApprove_NoPlanRule(toolName, toolInput) ==
  IF toolName \in FAST_APPROVE_TOOLS
  THEN HookOutput("allow", <<toolName, " is a safe read-only operation">>)
  ELSE IF toolName \in SAFE_WRITE_TOOLS
  THEN HookOutput("allow", <<toolName, " is a safe development operation">>)
  ELSE Null

\* Mutant: the safe-write tools are handed to the user.
shouldFastApprove_AskWrites(toolName, toolInput) ==
  IF toolName = "ExitPlanMode"
  THEN HookOutput("ask",
         <<"ExitPlanMode requires user confirmation before proceeding">>)
  ELSE IF toolName \in FAST_APPROVE_TOOLS
  THEN HookOutput("allow", <<toolName, " is a safe read-only operation">>)
  ELSE IF toolName \in SAFE_WRITE_TOOLS
  THEN HookOutput("ask", <<toolName, " is a safe development operation">>)
  ELSE Null

shouldFastApprove(toolName, toolInput) ==
  IF toolName = "ExitPlanMode"
  THEN HookOutput("ask",
         <<"ExitPlanMode requires user confirmation before proceeding">>)
  ELSE IF toolName \in FAST_APPROVE_TOOLS
  THEN HookOutput("allow", <<toolName, " is a safe read-only operation">>)
  ELSE IF toolName \in SAFE_WRITE_TOOLS
  THEN HookOutput("allow", <<toolName, " is a safe development operation">>)
  ELSE Null

----------------------------------------------------------------------------
(* Text *)

CachedSuffix == <<" (cached)">>

\* Mutant: a cached reason is passed on as it is.
Annotate_Plain(reason) == reason

\* `${reason} (cached)`
Annotate(reason) == reason \o CachedSuffix

EndsWithCached(reason) ==
  /\ Len(reason) >= 1
  /\ reason[Len(reason)] = CachedSuffix[1]

ReasonSafe == <<"Safe operation">>
ReasonRisky == <<"Destructive operation">>
Reasons == {ReasonSafe, ReasonRisky}

----------------------------------------------------------------------------
(* DecisionCache: approval_cache.json *)

CacheAbsent == [state |-> "absent"]
CacheCorrupt == [state |-> "corrupt"]
CacheJson(store) == [state |-> "json", data |-> store]

EmptyStore == << >>

RECURSIVE StringifyPairs(_)
\* The members of a JSON object, in insertion order.
StringifyPairs(pairs) ==
  IF pairs = << >> THEN << >>
  ELSE <<"\"", pairs[1][1], "\":\"", pairs[1][2], "\"">>
         \o (IF Len(pairs) > 1 THEN <<",">> ELSE << >>)
         \o StringifyPairs(Tail(pairs))

\* JSON.stringify({ toolName, toolInput })
JSONStringify(toolName, toolInput) ==
  <<"{\"toolName\":\"", toolName, "\",\"toolInput\":{">>
    \o StringifyPairs(toolInput) \o <<"}}">>

\* createHash('sha256').update(data).digest('hex'): the digest is named by its
\* preimage (no two serializations of this model collide).
Sha256(data) == <<"sha256">> \o data

generateCacheKey(toolName, toolInput) ==
  Sha256(JSONStringify(toolName, toolInput))

\* Mutant: the entry records allow, whatever was decided.
CacheEntry_AlwaysAllow(toolName, toolInput, decision, reason, timestamp) ==
  [toolName |-> toolName, toolInput |-> toolInput, decision |-> "allow",
   reason |-> reason, timestamp |-> timestamp]

CacheEntry(toolName, toolInput, decision, reason, timestamp) ==
  [toolName |-> toolName, toolInput |-> toolInput, decision |-> decision,
   reason |-> reason, timestamp |-> timestamp]

EntryFields == {"toolName", "toolInput", "decision", "reason", "timestamp"}

\* A JSON value that is not a string where the schema wants one, as in
\* "toolName": 42.
NotAString == "42 (a number)"

\* z.string() accepts the value.
IsString(value) == value # NotAString

\* ApprovalCacheEntrySchema: the five fields, decision allow or deny, and a
\* string for toolName (of the string fields, the one the files explored
\* give another type).
ApprovalCacheEntryValid(entry) ==
  /\ EntryFields \subseteq DOMAIN entry
  /\ entry["decision"] \in {"allow", "deny"}
  /\ IsString(entry["toolName"])

\* parseApprovalCache(parsed) does not throw
parseApprovalCacheOk(store) ==
  \A wd \in DOMAIN store :
    \A k \in DOMAIN store[wd] : ApprovalCacheEntryValid(store[wd][k])

\* entryObj.field || dflt, for a field that is a non-empty value when present
FieldOr(entry, field, dflt) ==
  IF field \in DOMAIN entry THEN entry[field] ELSE dflt

\* Mutant: only approve is relabelled; block is left as it is.
MigratedDecision_ApproveOnly(entry) ==
  LET decision == FieldOr(entry, "decision", "undefined") IN
  IF decision = "approve" THEN "allow" ELSE decision

MigratedDecision(entry) ==
  LET decision == FieldOr(entry, "decision", "undefined") IN
  IF decision = "approve" THEN "allow"
  ELSE IF decision = "block" THEN "deny"
  ELSE decision

migrateEntries(entries, now) ==
  LET kept == {k \in DOMAIN entries :
                 MigratedDecision(entries[k]) \in {"allow", "deny"}} IN
  [k \in kept |->
     CacheEntry(FieldOr(entries[k], "toolName", ""),
                FieldOr(entries[k], "toolInput", << >>),
                MigratedDecision(entries[k]),
                FieldOr(entries[k], "reason", << >>),
                FieldOr(entries[k], "timestamp", now))]

migrateLegacyCache(store, now) ==
  LET dirs == {wd \in DOMAIN store :
                 DOMAIN migrateEntries(store[wd], now) # {}} IN
  [wd \in dirs |-> migrateEntries(store[wd], now)]

\* Mutant: the directory is looked up without its trailing slash.
lookup_Normalised(store, workingDir, cacheKey) ==
  LET dir == IF workingDir = "/p/" THEN "/p" ELSE workingDir IN
  IF dir \in DOMAIN store /\ cacheKey \in DOMAIN store[dir]
  THEN store[dir][cacheKey]
  ELSE Null

lookup(store, workingDir, cacheKey) ==
  IF workingDir \in DOMAIN store /\ cacheKey \in DOMAIN store[workingDir]
  THEN store[workingDir][cacheKey]
  ELSE Null

\* Mutant: the directory is started afresh with the new entry alone.
withEntry_FreshDir(store, workingDir, cacheKey, entry) ==
  (workingDir :> (cacheKey :> entry)) @@ store

\* Mutant: an entry already held under the key is kept.
withEntry_KeepOld(store, workingDir, cacheKey, entry) ==
  LET old == IF workingDir \in DOMAIN store THEN store[workingDir] ELSE << >> IN
  (workingDir :> (old @@ (cacheKey :> entry))) @@ store

\* cache[workingDir][cacheKey] = entry, creating cache[workingDir] when missing
withEntry(store, workingDir, cacheKey, entry) ==
  LET old == IF workingDir \in DOMAIN store THEN store[workingDir] ELSE << >> IN
  (workingDir :> ((cacheKey :> entry) @@ old)) @@ store

Faults == {"none", "cacheRead", "cacheWrite", "logAppend", "mkdir"}

\* Mutant: the store is merged into what the file holds at the write.
saveCache_Merge(store, file, dirThere, flt) ==
  IF ~dirThere /\ flt = "mkdir"
  THEN [ok |-> FALSE, file |-> file, dir |-> FALSE]
  ELSE IF flt = "cacheWrite"
  THEN [ok |-> FALSE, file |-> file, dir |-> TRUE]
  ELSE [ok |-> TRUE, dir |-> TRUE,
        file |-> IF file.state # "json" THEN CacheJson(store)
                 ELSE CacheJson([wd \in DOMAIN store \cup DOMAIN file.data |->
                        IF wd \notin DOMAIN file.data THEN store[wd]
                        ELSE IF wd \notin DOMAIN store THEN file.data[wd]
                        ELSE store[wd] @@ file.data[wd]])]

\* saveCache(cache): ensureConfigDir(), then writeFileSync of the whole store.
\* ok = FALSE when mkdirSync or writeFileSync throws.
saveCache(store, file, dirThere, flt) ==
  IF ~dirThere /\ flt = "mkdir"
  THEN [ok |-> FALSE, file |-> file, dir |-> FALSE]
  ELSE IF flt = "cacheWrite"
  THEN [ok |-> FALSE, file |-> file, dir |-> TRUE]
  ELSE [ok |-> TRUE, file |-> CacheJson(store), dir |-> TRUE]

\* Mutant: the migrated cache is returned without being saved.
loadCache_NoSave(file, dirThere, flt, now) ==
  IF file.state = "absent"
  THEN [cache |-> EmptyStore, file |-> file, migrated |-> FALSE, threw |-> FALSE]
  ELSE IF flt = "cacheRead" \/ file.state = "corrupt"
  THEN [cache |-> EmptyStore, file |-> file, migrated |-> FALSE, threw |-> FALSE]
  ELSE IF parseApprovalCacheOk(file.data)
  THEN [cache |-> file.data, file |-> file, migrated |-> FALSE, threw |-> FALSE]
  ELSE [cache |-> migrateLegacyCache(file.data, now), file |-> file,
        migrated |-> TRUE, threw |-> FALSE]

\* Mutant: the outer try/catch is missing, so an unreadable or unparseable
\* file makes the load throw.
loadCache_NoCatch(file, dirThere, flt, now) ==
  IF file.state = "absent"
  THEN [cache |-> EmptyStore, file |-> file, migrated |-> FALSE, threw |-> FALSE]
  ELSE IF flt = "cacheRead" \/ file.state = "corrupt"
  THEN [cache |-> EmptyStore, file |-> file, migrated |-> FALSE, threw |-> TRUE]
  ELSE IF parseApprovalCacheOk(file.data)
  THEN [cache |-> file.data, file |-> file, migrated |-> FALSE, threw |-> FALSE]
  ELSE LET migrated == migrateLegacyCache(file.data, now)
           saved == saveCache(migrated, file, dirThere, flt)
       IN IF DOMAIN migrated = {}
          THEN [cache |-> migrated, file |-> file, migrated |-> TRUE,
                threw |-> FALSE]
          ELSE [cache |-> migrated, file |-> saved.file, migrated |-> TRUE,
                threw |-> ~saved.ok]

\* loadCache(): the store it returns, whether it ran the migration, the file
\* it leaves behind (a non-empty migration is saved at once; a throw of that
\* save lands in the outer catch, which returns {}), and whether it threw.
loadCache(file, dirThere, flt, now) ==
  IF file.state = "absent"
  THEN [cache |-> EmptyStore, file |-> file, migrated |-> FALSE, threw |-> FALSE]
  ELSE IF flt = "cacheRead" \/ file.state = "corrupt"
  THEN [cache |-> EmptyStore, file |-> file, migrated |-> FALSE, threw |-> FALSE]
  ELSE IF parseApprovalCacheOk(file.data)
  THEN [cache |-> file.data, file |-> file, migrated |-> FALSE, threw |-> FALSE]
  ELSE LET migrated == migrateLegacyCache(file.data, now)
           saved == saveCache(migrated, file, dirThere, flt)
       IN IF DOMAIN migrated = {}
          THEN [cache |-> migrated, file |-> file, migrated |-> TRUE,
                threw |-> FALSE]
          ELSE IF saved.ok
          THEN [cache |-> migrated, file |-> saved.file, migrated |-> TRUE,
                threw |-> FALSE]
          ELSE [cache |-> EmptyStore, file |-> file, migrated |-> TRUE,
                threw |-> FALSE]

\* Mutant: the file is left as it is.
clearCache_KeepsFile(file, dirThere, flt) ==
  IF ~dirThere /\ flt = "mkdir"
  THEN [ok |-> FALSE, file |-> file, dir |-> FALSE]
  ELSE [ok |-> TRUE, file |-> file, dir |-> TRUE]

\* clearCache(): ok = FALSE when it throws.
clearCache(file, dirThere, flt) ==
  IF ~dirThere /\ flt = "mkdir"
  THEN [ok |-> FALSE, file |-> file, dir |-> FALSE]
  ELSE IF file.state = "absent"
  THEN [ok |-> TRUE, file |-> file, dir |-> TRUE]
  ELSE IF flt = "cacheWrite"
  THEN [ok |-> FALSE, file |-> file, dir |-> TRUE]
  ELSE [ok |-> TRUE, file |-> CacheJson(EmptyStore), dir |-> TRUE]

\* Mutant: a hit is written back with the reason it is served with.
getCachedDecision_StoresHit(toolName, toolInput, workingDir, file, dirThere, flt, now) ==
  LET loaded == loadCache(file, dirThere, flt, now)
      cacheKey == generateCacheKey(toolName, toolInput)
      hit == lookup(loaded.cache, workingDir, cacheKey)
  IN [entry |-> hit,
      file |-> IF hit = Null THEN loaded.file
               ELSE CacheJson(withEntry(loaded.cache, workingDir, cacheKey,
                                [hit EXCEPT !.reason = Annotate(hit.reason)])),
      threw |-> loaded.threw, migrated |-> loaded.migrated]

\* getCachedDecision(toolName, toolInput, workingDir): the entry or Null, and
\* the file that loadCache() leaves behind.
getCachedDecision(toolName, toolInput, workingDir, file, dirThere, flt, now) ==
  LET loaded == loadCache(file, dirThere, flt, now) IN
  [entry |-> lookup(loaded.cache, workingDir,
                    generateCacheKey(toolName, toolInput)),
   file |-> loaded.file, threw |-> loaded.threw, migrated |-> loaded.migrated]

\* setCachedDecision(toolName, toolInput, workingDir, decision, reason) run to
\* its end: ok = FALSE when saveCache throws.
setCachedDecision(toolName, toolInput, workingDir, decision, reason, file, dirThere, flt, now) ==
  LET loaded == loadCache(file, dirThere, flt, now)
      entry == CacheEntry(toolName, toolInput, decision, reason, now)
      cache == withEntry(loaded.cache, workingDir,
                         generateCacheKey(toolName, toolInput), entry)
      saved == saveCache(cache, loaded.file, dirThere, flt)
  IN IF loaded.threw
     THEN [ok |-> FALSE, file |-> loaded.file, dir |-> dirThere,
           entry |-> entry, migrated |-> loaded.migrated]
     ELSE [ok |-> saved.ok, file |-> saved.file, dir |-> saved.dir,
           entry |-> entry, migrated |-> loaded.migrated]

----------------------------------------------------------------------------
(* ReasoningClient *)

ConfigKeys == {"beyondthehypeApiKey", "openaiApiKey", "anthropicApiKey", "apiKey"}
EnvKeys == {"OPENAI_API_KEY", "ANTHROPIC_API_KEY"}

\* Mutant: the Anthropic credentials are looked for before the OpenAI ones.
determineAuthMethod_AnthropicFirst(cfg, environ) ==
  IF cfg.authMethod # "unset" THEN cfg.authMethod
  ELSE IF "beyondthehypeApiKey" \in cfg.keys THEN "beyondthehype"
  ELSE IF \/ "anthropicApiKey" \in cfg.keys
          \/ "apiKey" \in cfg.keys
          \/ "ANTHROPIC_API_KEY" \in environ
  THEN "anthropic-compatible"
  ELSE IF "openaiApiKey" \in cfg.keys \/ "OPENAI_API_KEY" \in environ
  THEN "openai-compatible"
  ELSE "throw"

determineAuthMethod(cfg, environ) ==
  IF cfg.authMethod # "unset" THEN cfg.authMethod
  ELSE IF "beyondthehypeApiKey" \in cfg.keys THEN "beyondthehype"
  ELSE IF "openaiApiKey" \in cfg.keys \/ "OPENAI_API_KEY" \in environ
  THEN "openai-compatible"
  ELSE IF \/ "anthropicApiKey" \in cfg.keys
          \/ "apiKey" \in cfg.keys
          \/ "ANTHROPIC_API_KEY" \in environ
  THEN "anthropic-compatible"
  ELSE "throw"

\* initializeOpenAIClient() finds its apiKey
initializeOpenAIClientOk(authMethod, cfg, environ) ==
  CASE authMethod = "beyondthehype" -> "beyondthehypeApiKey" \in cfg.keys
    [] authMethod = "openai-compatible" ->
         "openaiApiKey" \in cfg.keys \/ "OPENAI_API_KEY" \in environ
    [] authMethod = "anthropic-compatible" ->
         \/ "anthropicApiKey" \in cfg.keys
         \/ "apiKey" \in cfg.keys
         \/ "ANTHROPIC_API_KEY" \in environ
    [] OTHER -> FALSE

\* Mutant: the environment variable is preferred to the configuration value.
apiKeyOf_EnvFirst(authMethod, cfg, environ) ==
  CASE authMethod = "beyondthehype" ->
         IF "beyondthehypeApiKey" \in cfg.keys
         THEN "config.beyondthehypeApiKey" ELSE ""
    [] authMethod = "openai-compatible" ->
         IF "OPENAI_API_KEY" \in environ THEN "env.OPENAI_API_KEY"
         ELSE IF "openaiApiKey" \in cfg.keys THEN "config.openaiApiKey"
         ELSE ""
    [] authMethod = "anthropic-compatible" ->
         IF "ANTHROPIC_API_KEY" \in environ THEN "env.ANTHROPIC_API_KEY"
         ELSE IF "anthropicApiKey" \in cfg.keys THEN "config.anthropicApiKey"
         ELSE IF "apiKey" \in cfg.keys THEN "config.apiKey"
         ELSE ""
    [] OTHER -> ""

\* The apiKey initializeOpenAIClient() gives to the SDK, named by where it
\* comes from; "" when there is none.
apiKeyOf(authMethod, cfg, environ) ==
  CASE authMethod = "beyondthehype" ->
         IF "beyondthehypeApiKey" \in cfg.keys
         THEN "config.beyondthehypeApiKey" ELSE ""
    [] authMethod = "openai-compatible" ->
         IF "openaiApiKey" \in cfg.keys THEN "config.openaiApiKey"
         ELSE IF "OPENAI_API_KEY" \in environ THEN "env.OPENAI_API_KEY"
         ELSE ""
    [] authMethod = "anthropic-compatible" ->
         IF "anthropicApiKey" \in cfg.keys THEN "config.anthropicApiKey"
         ELSE IF "apiKey" \in cfg.keys THEN "config.apiKey"
         ELSE IF "ANTHROPIC_API_KEY" \in environ THEN "env.ANTHROPIC_API_KEY"
         ELSE ""
    [] OTHER -> ""

\* getModel()
getModel(authMethod) ==
  IF authMethod = "anthropic-compatible" THEN "claude-3-5-sonnet-20241022"
  ELSE "gpt-5-mini"

\* new LLMClient(): the client constructed, or Null when the constructor throws
LLMClient(cfg, environ) ==
  LET authMethod == determineAuthMethod(cfg, environ) IN
  IF authMethod = "throw" \/ apiKeyOf(authMethod, cfg, environ) = ""
  THEN Null
  ELSE [authMethod |-> authMethod,
        apiKey |-> apiKeyOf(authMethod, cfg, environ),
        model |-> getModel(authMethod)]

\* Mutant: the constructor accepts any credential, whatever the auth method.
getLLMClientOk_AnyKey(cfg, environ) ==
  cfg.keys # {} \/ environ # {}

\* new LLMClient() returns (getLLMClient() does not throw)
getLLMClientOk(cfg, environ) ==
  LET authMethod == determineAuthMethod(cfg, environ) IN
  authMethod # "throw" /\ initializeOpenAIClientOk(authMethod, cfg, environ)

canConfigureLLMClient(cfg, environ) ==
  \/ cfg.keys \cap ConfigKeys # {}
  \/ environ \cap EnvKeys # {}

\* What the remote call hands back: a transport error, or a message content.
\* A content is text, possibly wrapped in a ```json fence; its text is JSON
\* for an object, or not JSON at all.
JsonText(obj) == [json |-> TRUE, obj |-> obj, empty |-> FALSE]
Garbage == [json |-> FALSE, obj |-> << >>, empty |-> FALSE]
EmptyText == [json |-> FALSE, obj |-> << >>, empty |-> TRUE]
\* A content is a text inside a fence: none, a ```json block, or a block
\* that the pattern ```json\n...\n``` does not match.
Fences == {"none", "json", "unmatched"}
Content(fence, text) == [kind |-> "content", fence |-> fence, text |-> text]
EmptyContent == Content("none", EmptyText)
TransportError == [kind |-> "error"]

Decision(decision, reason) == [decision |-> decision, reason |-> reason]

DecisionObjects ==
  {Decision("allow", ReasonSafe), Decision("allow", ReasonRisky),
   Decision("deny", ReasonRisky), Decision("ask", ReasonSafe)}

Replies ==
  {TransportError, EmptyContent, Content("none", Garbage),
   Content("none", JsonText(Decision("maybe", ReasonSafe))),
   Content("none", JsonText([decision |-> "allow"])),
   Content("json", JsonText(Decision("deny", ReasonRisky))),
   Content("unmatched", JsonText(Decision("allow", ReasonSafe)))}
    \cup {Content("none", JsonText(o)) : o \in DecisionObjects}

\* chatCompletion() returns a content (it throws on a transport error and on
\* an empty content)
chatCompletionOk(reply) ==
  reply.kind = "content" /\ ~reply.text.empty

\* ToolDecisionSchema.parse(jsonData) does not throw
ToolDecisionSchemaOk(obj) ==
  /\ {"decision", "reason"} \subseteq DOMAIN obj
  /\ obj["decision"] \in {"allow", "deny", "ask"}

\* cleanContent of parseJsonResponse: the text inside a matched ```json
\* block, and otherwise the whole content, fence included.
cleanContent(reply) ==
  IF reply.fence \in {"none", "json"} THEN reply.text ELSE Garbage

\* Mutant: the parsed JSON is returned without schema.parse.
parseJsonResponse_NoSchema(reply) ==
  LET jsonData == cleanContent(reply) IN
  IF jsonData.json
  THEN Decision(jsonData.obj["decision"],
                IF "reason" \in DOMAIN jsonData.obj
                THEN jsonData.obj["reason"] ELSE << >>)
  ELSE Null

\* parseJsonResponse(content, ToolDecisionSchema): JSON.parse of the cleaned
\* content, then schema.parse; Null stands for a throw.
parseJsonResponse(reply) ==
  LET jsonData == cleanContent(reply) IN
  IF jsonData.json /\ ToolDecisionSchemaOk(jsonData.obj)
  THEN Decision(jsonData.obj["decision"], jsonData.obj["reason"])
  ELSE Null

\* Mutant: a failed call falls back to asking the user.
queryLLMResult_FallbackAsk(reply) ==
  IF chatCompletionOk(reply) /\ parseJsonResponse(reply) # Null
  THEN parseJsonResponse(reply)
  ELSE Decision("ask", <<"Could not reach the model">>)

\* queryLLM's result for a reply: a ToolDecision, or Null for a throw
queryLLMResult(reply) ==
  IF chatCompletionOk(reply) THEN parseJsonResponse(reply) ELSE Null

----------------------------------------------------------------------------
(* ApprovalLogger: approval.jsonl *)

\* Mutant: the entry is written without the decision of the verdict.
LogEntry_Undecided(datetime, tool, inputs, reason, decision, cwd, sessionId) ==
  [datetime |-> datetime, tool |-> tool, inputs |-> inputs, reason |-> reason,
   decision |-> "undefined", cwd |-> cwd, session_id |-> sessionId]

LogEntry(datetime, tool, inputs, reason, decision, cwd, sessionId) ==
  [datetime |-> datetime, tool |-> tool, inputs |-> inputs, reason |-> reason,
   decision |-> decision, cwd |-> cwd, session_id |-> sessionId]

\* Mutant: the catch is missing, so a failed write rejects.
performWrite_NoCatch(entry, log, dirThere, flt) ==
  IF ~dirThere /\ flt = "mkdir"
  THEN [log |-> log, dir |-> FALSE, threw |-> TRUE]
  ELSE IF flt = "logAppend"
  THEN [log |-> log, dir |-> TRUE, threw |-> TRUE]
  ELSE [log |-> Append(log, entry), dir |-> TRUE, threw |-> FALSE]

\* Mutant: a line is dropped when the file already holds one of the same
\* session and datetime.
performWrite_DedupByKey(entry, log, dirThere, flt) ==
  IF ~dirThere /\ flt = "mkdir"
  THEN [log |-> log, dir |-> FALSE, threw |-> FALSE]
  ELSE IF flt = "logAppend"
  THEN [log |-> log, dir |-> TRUE, threw |-> FALSE]
  ELSE IF \E i \in 1..Len(log) : /\ log[i].session_id = entry.session_id
                                 /\ log[i].datetime = entry.datetime
  THEN [log |-> log, dir |-> TRUE, threw |-> FALSE]
  ELSE [log |-> Append(log, entry), dir |-> TRUE, threw |-> FALSE]

\* performWrite(entry): mkdir -p of the log directory, then one appendFile;
\* any throw is swallowed and the entry dropped (threw: the promise rejects).
performWrite(entry, log, dirThere, flt) ==
  IF ~dirThere /\ flt = "mkdir"
  THEN [log |-> log, dir |-> FALSE, threw |-> FALSE]
  ELSE IF flt = "logAppend"
  THEN [log |-> log, dir |-> TRUE, threw |-> FALSE]
  ELSE [log |-> Append(log, entry), dir |-> TRUE, threw |-> FALSE]

----------------------------------------------------------------------------
(* State *)

VARIABLES
  cacheFile,    \* approval_cache.json: absent, unparseable, or a JSON store
  logFile,      \* approval.jsonl: the sequence of its lines
  dirExists,    \* the per-installation directory exists
  config,       \* the configuration as loadConfig() returns it
  configFile,   \* config.json: absent, unreadable, unparseable, or JSON
  env,          \* credential variables of the environment
  noCache,      \* the hook command carries --no-cache
  fault,        \* what the file system refuses
  clock,        \* logical time: one tick per process launch
  proc,         \* the running invocations
  prev,         \* summary of the invocation that exited last
  parallel,     \* how many invocations the host runs at the same time
  api,          \* the last direct call of a module or command, with its result
  written,      \* every entry the store was given, with its directory and key
  logger,       \* the ApprovalLogger of one process: pendingWrites and its callers
  settings,     \* ~/.claude/settings.json of the host, and its backup copies
  stopHook      \* the invocation of `ccb enforce-tests`

vars ==
  <<cacheFile, logFile, dirExists, config, configFile, env, noCache, fault,
    clock, proc, prev, parallel, api, written, logger, settings, stopHook>>

\* An entry as the store was given it.
Given(workingDir, cacheKey, entry) ==
  [workingDir |-> workingDir, cacheKey |-> cacheKey, entry |-> entry]

GivenBy(store) ==
  UNION {{Given(wd, k, store[wd][k]) : k \in DOMAIN store[wd]} :
           wd \in DOMAIN store}

\* What a file holds once read: its store, relabelled when it is a legacy one.
Holds(file) ==
  IF file.state # "json" THEN {}
  ELSE IF parseApprovalCacheOk(file.data) THEN GivenBy(file.data)
  ELSE GivenBy(migrateLegacyCache(file.data, 0))

\* No logApproval call was made yet: pendingWrites is empty.
IdleLogger == [pendingWrites |-> << >>, calls |-> << >>, attempts |-> << >>]

\* No settings.json
SettingsAbsent == [state |-> "absent"]

\* The host before any install: no settings.json, no backup copy of it, no
\* run of install or uninstall and no edit.
NoSettings == [file |-> SettingsAbsent, backups |-> {}, runs |-> 0]

\* `ccb enforce-tests` was not launched.
IdleStop == [pc |-> "idle"]

IdleProc ==
  [pc |-> "idle", tool |-> "", input |-> << >>, session |-> "", cwd |-> "",
   output |-> Null, mem |-> EmptyStore, exitCode |-> -1, stdout |-> Null,
   stderr |-> << >>, llmCalls |-> 0, cacheReads |-> 0, logged |-> FALSE,
   cacheWrites |-> 0, via |-> "none", cachedDecision |-> Null, stdin |-> Null,
   reply |-> Null, after |-> Null, overlapped |-> FALSE, client |-> Null]

KeyBashLs == generateCacheKey("Bash", InputLs)
KeyPlanLs == generateCacheKey("ExitPlanMode", InputLs)

\* A store written by release 0.3.0, whose labels were approve and block.
LegacyStore ==
  "/p" :> (KeyBashLs :> CacheEntry("Bash", InputLs, "approve", ReasonSafe, 0)
           @@ KeyPlanLs :> CacheEntry("ExitPlanMode", InputLs, "approve", ReasonSafe, 0))
  @@ "/p/" :> (KeyBashLs :> CacheEntry("Bash", InputLs, "block", ReasonRisky, 0))

CurrentStore == migrateLegacyCache(LegacyStore, 0)

InitialCacheFiles ==
  {CacheAbsent, CacheCorrupt, CacheJson(EmptyStore), CacheJson(LegacyStore),
   CacheJson(CurrentStore)}

Credentials ==
  {[authMethod |-> "unset", keys |-> {}, env |-> {}],
   [authMethod |-> "unset", keys |-> {}, env |-> {"OPENAI_API_KEY"}],
   [authMethod |-> "unset", keys |-> {"beyondthehypeApiKey"}, env |-> {}],
   [authMethod |-> "openai-compatible", keys |-> {}, env |-> {"ANTHROPIC_API_KEY"}]}

Config(log, cache, credential) ==
  [log |-> log, cache |-> cache, authMethod |-> credential.authMethod,
   keys |-> credential.keys]

\* loadConfig() without a config.json, with OPENAI_API_KEY in the environment
DefaultCredential == [authMethod |-> "unset", keys |-> {}, env |-> {"OPENAI_API_KEY"}]
DefaultConfig == Config(TRUE, TRUE, DefaultCredential)

\* config.json: data are the settings written in it, mistyped the fields
\* whose value has a type the schema rejects.
ConfigAbsent == [state |-> "absent", data |-> << >>, mistyped |-> {}]
ConfigUnreadable == [state |-> "unreadable", data |-> << >>, mistyped |-> {}]
ConfigUnparseable == [state |-> "unparseable", data |-> << >>, mistyped |-> {}]
ConfigJson(data, mistyped) == [state |-> "json", data |-> data, mistyped |-> mistyped]

\* defaultConfig of loadConfig(): logging and caching enabled, no credential
defaultConfig == [log |-> TRUE, cache |-> TRUE, authMethod |-> "unset", keys |-> {}]

\* Mutant: the fields that pass validation are kept.
loadConfig_KeepsValidFields(file) ==
  IF file.state # "json" THEN defaultConfig
  ELSE [f \in DOMAIN file.data |->
          IF f \in file.mistyped THEN defaultConfig[f] ELSE file.data[f]]

\* loadConfig(): the defaults when config.json is absent, cannot be read, is
\* not JSON or fails parseConfig; otherwise what parseConfig returns.
loadConfig(file) ==
  IF file.state = "json" /\ file.mistyped = {} THEN file.data ELSE defaultConfig

\* console.warn of loadConfig()
configWarning(file) ==
  CASE file.state = "unreadable" ->
         <<"Warning: Unable to read config.json. Using defaults.">>
    [] file.state = "unparseable" ->
         <<"Warning: Invalid JSON in config.json. Using defaults.">>
    [] file.state = "json" /\ file.mistyped # {} ->
         <<"Warning: Invalid config.json format. Using defaults.">>
    [] OTHER -> << >>

\* The config.json of an installation whose configuration is cfg: none for
\* the defaults.
ConfigFileOf(cfg) ==
  IF cfg = defaultConfig THEN ConfigAbsent ELSE ConfigJson(cfg, {})

\* The config.json files that loadConfig() rejects: the settings written in
\* the last two turn logging and caching off and carry a key.
RejectedConfigFiles ==
  {ConfigUnreadable, ConfigUnparseable,
   ConfigJson([log |-> FALSE, cache |-> FALSE, authMethod |-> "unset",
               keys |-> {"openaiApiKey"}], {"log"}),
   ConfigJson([log |-> FALSE, cache |-> FALSE, authMethod |-> "unset",
               keys |-> {"openaiApiKey"}], {"cache", "authMethod"})}

Installation(file, dirThere, cfg, environ, flag, flt) ==
  [cacheFile |-> file, dirExists |-> dirThere, configFile |-> ConfigFileOf(cfg),
   env |-> environ, noCache |-> flag, fault |-> flt]

\* The installations explored, all without a file-system fault unless said:
\* every cache file under the default configuration; every setting of log,
\* cache and --no-cache, and every credential, over a current cache file;
\* every file-system fault over an absent, a legacy and a current cache file,
\* and over a missing installation directory; every config.json that
\* loadConfig() rejects, and one of them without a key in the environment; caching
\* disabled by the configuration or by the flag over an absent and a legacy
\* cache file.
Installations ==
  {Installation(f, TRUE, DefaultConfig, DefaultCredential.env, FALSE, "none") :
     f \in InitialCacheFiles}
  \cup {Installation(CacheJson(CurrentStore), TRUE,
                     Config(l, k, DefaultCredential), DefaultCredential.env, n, "none") :
          l \in BOOLEAN, k \in BOOLEAN, n \in BOOLEAN}
  \cup {Installation(CacheJson(CurrentStore), TRUE, Config(TRUE, TRUE, c), c.env,
                     FALSE, "none") : c \in Credentials}
  \cup {Installation(f, TRUE, DefaultConfig, DefaultCredential.env, FALSE, flt) :
          f \in {CacheAbsent, CacheJson(LegacyStore), CacheJson(CurrentStore)},
          flt \in Faults}
  \cup {Installation(CacheAbsent, FALSE, DefaultConfig, DefaultCredential.env, FALSE, flt) :
          flt \in Faults}
  \cup {[Installation(CacheJson(CurrentStore), TRUE, DefaultConfig,
                      DefaultCredential.env, FALSE, "none")
            EXCEPT !.configFile = f] : f \in RejectedConfigFiles}
  \cup {[Installation(CacheJson(CurrentStore), TRUE, DefaultConfig, {},
                      FALSE, "none") EXCEPT !.configFile = ConfigUnparseable]}
  \cup {Installation(f, TRUE, Config(TRUE, k, DefaultCredential),
                     DefaultCredential.env, k, "none") :
          f \in {CacheAbsent, CacheJson(LegacyStore)}, k \in BOOLEAN}

Init ==
  /\ \E i \in Installations :
       /\ cacheFile = i.cacheFile
       /\ dirExists = i.dirExists
       /\ configFile = i.configFile
       /\ config = loadConfig(i.configFile)
       /\ env = i.env
       /\ noCache = i.noCache
       /\ fault = i.fault
  /\ logFile = << >>
  /\ clock = 0
  /\ proc = [p \in Procs |-> IdleProc]
  /\ prev = Null
  /\ parallel = 1
  /\ api = Null
  /\ logger = IdleLogger
  /\ settings = NoSettings
  /\ stopHook = IdleStop
  /\ written = Holds(cacheFile)

Running == {p \in Procs : proc[p].pc # "idle"}

KeyOfRequest(p) == generateCacheKey(proc[p].tool, proc[p].input)


\* Mutant: the --no-cache flag is ignored.
cacheEnabled_IgnoresFlag == config.cache

cacheEnabled == config.cache /\ ~noCache

\* Mutant: every decision of the model is written through.
shouldCache_AnyDecision(decision) == cacheEnabled

\* The write-through condition: allow or deny, with caching enabled.
shouldCache(decision) == cacheEnabled /\ decision # "ask"

\* The catch block of autoApproveTools: a diagnostic on stderr, exit(1).
Failed(p, message) ==
  [proc[p] EXCEPT !.pc = "done", !.exitCode = 1, !.output = Null,
                  !.stderr = @ \o <<"Error processing hook input: ", message>>]

----------------------------------------------------------------------------
(* One invocation of `ccb auto-approve-tools`, step by step *)

\* The process starts: it reads and parses standard input, validates the
\* envelope, loads the configuration and runs the fast path.
Start(p, stdin, cwd) ==
  /\ proc[p].pc = "idle"
  /\ \A q \in Procs : proc[q].pc = "idle" => p <= q
  /\ Cardinality(Running) < parallel
  /\ clock < MaxInvocations
  /\ clock' = clock + 1
  /\ LET fresh == [IdleProc EXCEPT !.cwd = cwd, !.stdin = stdin,
                     !.after = IF Running = {} THEN prev ELSE Null,
                     !.overlapped = (Running # {})]
         hookData == stdin.obj
         toolName == hookData["tool_name"].v
         toolInput == hookData["tool_input"].v
         parsed == [fresh EXCEPT !.tool = toolName, !.input = toolInput,
                                 !.session = hookData["session_id"].v,
                                 !.stderr = configWarning(configFile)]
         fastApproval == shouldFastApprove(toolName, toolInput)
         next ==
           IF ~stdin.json
           THEN [fresh EXCEPT !.pc = "done", !.exitCode = 1,
                   !.stderr = <<"Error processing hook input: ", "SyntaxError">>]
           ELSE IF ~HookInputValid(hookData)
           THEN [fresh EXCEPT !.pc = "done", !.exitCode = 1,
                   !.stderr = <<"Error processing hook input: ", "ZodError">>]
           ELSE IF fastApproval # Null
           THEN [parsed EXCEPT !.pc = "log", !.output = fastApproval,
                               !.via = "fast"]
           ELSE [parsed EXCEPT !.pc = "lookup"]
     IN proc' = [q \in Procs |->
                   IF q = p THEN next
                   ELSE [proc[q] EXCEPT !.after = Null, !.overlapped = TRUE]]
  /\ UNCHANGED <<cacheFile, logFile, dirExists, config, configFile, logger, settings, stopHook, env, noCache, fault,
                 prev, parallel, api,
                 written>>

\* getCachedDecision, when caching is enabled; a hit becomes the output.
CacheLookup(p) ==
  /\ proc[p].pc = "lookup"
  /\ IF cacheEnabled
     THEN LET got == getCachedDecision(proc[p].tool, proc[p].input,
                                       proc[p].cwd, cacheFile, dirExists,
                                       fault, clock)
              cachedDecision == got.entry
          IN /\ cacheFile' = got.file
             /\ proc' = [proc EXCEPT ![p] =
                  IF got.threw
                  THEN [Failed(p, "loadCache") EXCEPT !.cacheReads = @ + 1]
                  ELSE IF cachedDecision # Null
                  THEN [@ EXCEPT !.pc = "log", !.via = "cache",
                          !.cacheReads = @ + 1,
                          !.cachedDecision = cachedDecision,
                          !.output = HookOutput(cachedDecision.decision,
                                       Annotate(cachedDecision.reason))]
                  ELSE [@ EXCEPT !.pc = "reason", !.cacheReads = @ + 1]]
     ELSE /\ proc' = [proc EXCEPT ![p].pc = "reason"]
          /\ UNCHANGED cacheFile
  /\ UNCHANGED <<logFile, dirExists, config, configFile, logger, settings, stopHook, env, noCache, fault, clock, prev,
                 parallel, api,
                 written>>

\* The credential check, the client construction and the remote call going out.
QueryLLM(p) ==
  /\ proc[p].pc = "reason"
  /\ proc' = [proc EXCEPT ![p] =
       IF ~canConfigureLLMClient(config, env)
       THEN Failed(p, "No authentication method configured")
       ELSE IF ~getLLMClientOk(config, env)
       THEN Failed(p, "API key is required")
       ELSE [@ EXCEPT !.pc = "waiting", !.llmCalls = @ + 1,
                      !.client = LLMClient(config, env)]]
  /\ UNCHANGED <<cacheFile, logFile, dirExists, config, configFile, logger, settings, stopHook, env, noCache, fault,
                 clock, prev, parallel, api,
                 written>>

\* Mutant: a failed call is tried again.
LLMRespond_Retries(p, reply) ==
  /\ proc[p].pc = "waiting"
  /\ LET claudeResponse == queryLLMResult(reply) IN
     proc' = [proc EXCEPT ![p] =
       IF claudeResponse = Null
       THEN [@ EXCEPT !.pc = "reason", !.reply = reply]
       ELSE [@ EXCEPT !.via = "llm", !.reply = reply,
               !.output = HookOutput(claudeResponse.decision,
                                     claudeResponse.reason),
               !.pc = IF shouldCache(claudeResponse.decision)
                      THEN "put" ELSE "log"]]
  /\ UNCHANGED <<cacheFile, logFile, dirExists, config, configFile, logger, settings, stopHook, env, noCache, fault,
                 clock, prev, parallel, api,
                 written>>

\* The remote call returns (or throws); the reply is parsed into the output.
LLMRespond(p, reply) ==
  /\ proc[p].pc = "waiting"
  /\ LET claudeResponse == queryLLMResult(reply) IN
     proc' = [proc EXCEPT ![p] =
       IF claudeResponse = Null
       THEN [Failed(p, "Failed to query API or parse its response")
               EXCEPT !.reply = reply]
       ELSE [@ EXCEPT !.via = "llm", !.reply = reply,
               !.output = HookOutput(claudeResponse.decision,
                                     claudeResponse.reason),
               !.pc = IF shouldCache(claudeResponse.decision)
                      THEN "put" ELSE "log"]]
  /\ UNCHANGED <<cacheFile, logFile, dirExists, config, configFile, logger, settings, stopHook, env, noCache, fault,
                 clock, prev, parallel, api,
                 written>>

\* setCachedDecision, first half: loadCache() and the in-memory update.
PutLoad(p) ==
  /\ proc[p].pc = "put"
  /\ LET loaded == loadCache(cacheFile, dirExists, fault, clock)
         cacheKey == generateCacheKey(proc[p].tool, proc[p].input)
         entry == CacheEntry(proc[p].tool, proc[p].input,
                             proc[p].output.permissionDecision,
                             proc[p].output.permissionDecisionReason, clock)
     IN /\ cacheFile' = loaded.file
        /\ proc' = [proc EXCEPT ![p] =
             IF loaded.threw
             THEN [Failed(p, "loadCache") EXCEPT !.cacheReads = @ + 1]
             ELSE [@ EXCEPT !.pc = "save", !.cacheReads = @ + 1,
                     !.mem = withEntry(loaded.cache, proc[p].cwd, cacheKey,
                                       entry)]]
  /\ UNCHANGED <<logFile, dirExists, config, configFile, logger, settings, stopHook, env, noCache, fault, clock, prev,
                 parallel, api,
                 written>>

\* setCachedDecision, second half: saveCache(cache); a throw is not caught
\* before the catch block of autoApproveTools.
PutSave(p) ==
  /\ proc[p].pc = "save"
  /\ LET saved == saveCache(proc[p].mem, cacheFile, dirExists, fault) IN
     /\ cacheFile' = saved.file
     /\ dirExists' = saved.dir
     /\ written' = IF saved.ok
                   THEN written \cup
                          {Given(proc[p].cwd, KeyOfRequest(p),
                                 lookup(proc[p].mem, proc[p].cwd, KeyOfRequest(p)))}
                   ELSE written
     /\ proc' = [proc EXCEPT ![p] =
          IF saved.ok
          THEN [@ EXCEPT !.pc = "log", !.mem = EmptyStore, !.cacheWrites = @ + 1]
          ELSE [Failed(p, "writeFileSync") EXCEPT !.mem = EmptyStore]]
  /\ UNCHANGED <<logFile, config, configFile, logger, settings, stopHook, env, noCache, fault, clock, prev, parallel, api>>

\* Mutant: the entry is written whatever config.log says.
LogApproval_Always(p) ==
  /\ proc[p].pc = "log"
  /\ IF TRUE
     THEN LET entry == LogEntry(clock, proc[p].tool, proc[p].input,
                         proc[p].output.permissionDecisionReason,
                         proc[p].output.permissionDecision,
                         proc[p].cwd, proc[p].session)
              appended == performWrite(entry, logFile, dirExists, fault)
          IN /\ logFile' = appended.log
             /\ dirExists' = appended.dir
             /\ proc' = [proc EXCEPT ![p] =
                  IF appended.threw
                  THEN Failed(p, "logApproval")
                  ELSE [@ EXCEPT !.pc = "output",
                          !.logged = (appended.log # logFile)]]
     ELSE /\ proc' = [proc EXCEPT ![p].pc = "output"]
          /\ UNCHANGED <<logFile, dirExists>>
  /\ UNCHANGED <<cacheFile, config, configFile, logger, settings, stopHook, env, noCache, fault, clock, prev, parallel, api,
                 written>>

\* logApproval, when logging is enabled.
LogApproval(p) ==
  /\ proc[p].pc = "log"
  /\ IF config.log
     THEN LET entry == LogEntry(clock, proc[p].tool, proc[p].input,
                         proc[p].output.permissionDecisionReason,
                         proc[p].output.permissionDecision,
                         proc[p].cwd, proc[p].session)
              appended == performWrite(entry, logFile, dirExists, fault)
          IN /\ logFile' = appended.log
             /\ dirExists' = appended.dir
             /\ proc' = [proc EXCEPT ![p] =
                  IF appended.threw
                  THEN Failed(p, "logApproval")
                  ELSE [@ EXCEPT !.pc = "output",
                          !.logged = (appended.log # logFile)]]
     ELSE /\ proc' = [proc EXCEPT ![p].pc = "output"]
          /\ UNCHANGED <<logFile, dirExists>>
  /\ UNCHANGED <<cacheFile, config, configFile, logger, settings, stopHook, env, noCache, fault, clock, prev, parallel, api,
                 written>>

\* process.stdout.write(JSON.stringify(output)); process.exit(0)
WriteOutput(p) ==
  /\ proc[p].pc = "output"
  /\ proc' = [proc EXCEPT ![p].pc = "done", ![p].exitCode = 0,
                ![p].stdout = proc[p].output]
  /\ UNCHANGED <<cacheFile, logFile, dirExists, config, configFile, logger, settings, stopHook, env, noCache, fault,
                 clock, prev, parallel, api,
                 written>>

\* The process is gone; what the host saw of it is remembered in prev, unless
\* another invocation or a clear ran while it did.
Exit(p) ==
  /\ proc[p].pc = "done"
  /\ prev' = IF proc[p].overlapped THEN Null ELSE
             [tool |-> proc[p].tool, input |-> proc[p].input,
              cwd |-> proc[p].cwd, exitCode |-> proc[p].exitCode,
              stdout |-> proc[p].stdout, via |-> proc[p].via]
  /\ proc' = [proc EXCEPT ![p] = IdleProc]
  /\ UNCHANGED <<cacheFile, logFile, dirExists, config, configFile, logger, settings, stopHook, env, noCache, fault,
                 clock, parallel, api,
                 written>>

\* The operator clears the cache (ccb doctor --clear-cache).
ClearCache ==
  /\ LET cleared == clearCache(cacheFile, dirExists, fault) IN
     /\ cacheFile' = cleared.file
     /\ dirExists' = cleared.dir
     /\ cleared.file # cacheFile \/ cleared.dir # dirExists
  /\ prev' = Null
  /\ proc' = [q \in Procs |->
                IF q \in Running
                THEN [proc[q] EXCEPT !.after = Null, !.overlapped = TRUE]
                ELSE proc[q]]
  /\ UNCHANGED <<logFile, config, configFile, logger, settings, stopHook, env, noCache, fault, clock, parallel, api,
                 written>>

----------------------------------------------------------------------------
(* The cache module called directly, one call after the other, as its unit
   tests and the doctor command call it *)

MaxCacheCalls == 3

CacheVerdicts ==
  {Decision("allow", ReasonSafe), Decision("allow", ReasonRisky),
   Decision("deny", ReasonRisky)}

Call(op, toolName, toolInput, workingDir) ==
  [op |-> op, toolName |-> toolName, toolInput |-> toolInput,
   workingDir |-> workingDir, at |-> clock + 1, decision |-> "",
   reason |-> << >>, threw |-> FALSE, result |-> Null, migrated |-> FALSE,
   last |-> Null]

CallSet(toolName, toolInput, workingDir, verdict) ==
  /\ clock < MaxCacheCalls
  /\ clock' = clock + 1
  /\ LET done == setCachedDecision(toolName, toolInput, workingDir,
                                   verdict.decision, verdict.reason,
                                   cacheFile, dirExists, fault, clock + 1)
     IN /\ cacheFile' = done.file
        /\ dirExists' = done.dir
        /\ written' = IF done.ok
                      THEN written \cup
                             {Given(workingDir,
                                    generateCacheKey(toolName, toolInput),
                                    done.entry)}
                      ELSE written
        /\ api' = [Call("set", toolName, toolInput, workingDir) EXCEPT
                     !.decision = verdict.decision, !.reason = verdict.reason,
                     !.threw = ~done.ok, !.migrated = done.migrated]
  /\ UNCHANGED <<logFile, config, configFile, logger, settings, stopHook, env, noCache, fault, proc, prev, parallel>>

CallGet(toolName, toolInput, workingDir) ==
  /\ clock < MaxCacheCalls
  /\ clock' = clock + 1
  /\ LET got == getCachedDecision(toolName, toolInput, workingDir, cacheFile,
                                  dirExists, fault, clock + 1)
     IN /\ cacheFile' = got.file
        /\ api' = [Call("get", toolName, toolInput, workingDir) EXCEPT
                     !.result = got.entry, !.threw = got.threw,
                     !.migrated = got.migrated,
                     !.last = IF api = Null THEN Null
                              ELSE [api EXCEPT !.last = Null,
                                               !.result = Null]]
  /\ UNCHANGED <<logFile, dirExists, config, configFile, logger, settings, stopHook, env, noCache, fault, proc, prev,
                 parallel, written>>

CallClear ==
  /\ clock < MaxCacheCalls
  /\ clock' = clock + 1
  /\ LET cleared == clearCache(cacheFile, dirExists, fault) IN
     /\ cacheFile' = cleared.file
     /\ dirExists' = cleared.dir
     /\ api' = [Call("clear", "", << >>, "") EXCEPT !.threw = ~cleared.ok]
  /\ UNCHANGED <<logFile, config, configFile, logger, settings, stopHook, env, noCache, fault, proc, prev, parallel,
                 written>>

KeyBashRm == generateCacheKey("Bash", InputRm)

\* A file of mixed content: a current entry, a legacy entry without its
\* reason, and an entry whose decision is none of the four labels.
MixedStore ==
  "/p" :> (KeyBashLs :> CacheEntry("Bash", InputLs, "allow", ReasonSafe, 0)
           @@ KeyBashRm :> CacheEntry("Bash", InputRm, "unsure", ReasonRisky, 0))
  @@ "/p/" :> (KeyBashRm :> [toolName |-> "Bash", toolInput |-> InputRm,
                             decision |-> "block", timestamp |-> 0])

\* A file none of whose entries has a decision the migration knows.
StaleStore ==
  "/p" :> (KeyBashLs :> CacheEntry("Bash", InputLs, "unsure", ReasonSafe, 0)
           @@ KeyBashRm :> [toolName |-> "Bash", toolInput |-> InputRm])

\* A legacy file with an entry whose toolName is not a string.
MistypedStore ==
  "/p" :> (KeyBashLs :> CacheEntry(NotAString, InputLs, "approve", ReasonSafe, 0)
           @@ KeyBashRm :> CacheEntry("Bash", InputRm, "block", ReasonRisky, 0))

\* Cache files as the loadCache tests write them by hand.
HandWrittenCacheFiles ==
  {CacheJson(MixedStore), CacheJson(StaleStore), CacheJson(MistypedStore)}

CacheInstallations ==
  {Installation(f, TRUE, DefaultConfig, DefaultCredential.env, FALSE, flt) :
     f \in InitialCacheFiles \cup HandWrittenCacheFiles,
     flt \in {"none", "cacheRead", "cacheWrite"}}
  \cup {Installation(CacheAbsent, FALSE, DefaultConfig, DefaultCredential.env, FALSE, flt) :
          flt \in {"none", "mkdir"}}

InitCache ==
  /\ \E i \in CacheInstallations :
       /\ cacheFile = i.cacheFile
       /\ dirExists = i.dirExists
       /\ configFile = i.configFile
       /\ config = loadConfig(i.configFile)
       /\ env = i.env
       /\ noCache = i.noCache
       /\ fault = i.fault
  /\ logFile = << >>
  /\ clock = 0
  /\ proc = [p \in Procs |-> IdleProc]
  /\ prev = Null
  /\ parallel = 0
  /\ api = Null
  /\ logger = IdleLogger
  /\ settings = NoSettings
  /\ stopHook = IdleStop
  /\ written = Holds(cacheFile)

\* One tool input written with its two keys in either order, as two hook
\* payloads can carry it.
InputLsTimeout == << <<"command", "ls">>, <<"timeout", "5">> >>
InputTimeoutLs == << <<"timeout", "5">>, <<"command", "ls">> >>
ReorderedInputs == {InputLsTimeout, InputTimeoutLs}

\* The requests the cache module is called with.
CacheRequests ==
  {[toolInput |-> i, workingDir |-> wd] : i \in ToolInputs, wd \in WorkingDirs}
  \cup {[toolInput |-> i, workingDir |-> "/p"] : i \in ReorderedInputs}

NextCache ==
  \/ \E v \in CacheVerdicts, r \in CacheRequests :
       CallSet("Bash", r.toolInput, r.workingDir, v)
  \/ \E r \in CacheRequests : CallGet("Bash", r.toolInput, r.workingDir)
  \/ CallClear

SpecCache == InitCache /\ [][NextCache]_vars

----------------------------------------------------------------------------
(* Invocations launched side by side by the host, each a process of its own *)

ConcurrentLaunches ==
  {Launch(Envelope("s1", "Read", InputLs), "/p"),
   Launch(Envelope("s1", "Read", InputRm), "/p"),
   Launch(Envelope("s1", "Bash", InputLs), "/p"),
   Launch(Envelope("s1", "Bash", InputRm), "/p"),
   Launch(Envelope("s1", "Bash", InputLs), "/p/")}

ConcurrentInstallations ==
  {Installation(f, d, DefaultConfig, DefaultCredential.env, FALSE, flt) :
     f \in {CacheAbsent, CacheJson(CurrentStore)}, d \in {TRUE},
     flt \in {"none", "logAppend"}}
  \cup {Installation(CacheAbsent, FALSE, DefaultConfig, DefaultCredential.env,
                     FALSE, "none")}

InitConcurrent ==
  /\ \E i \in ConcurrentInstallations :
       /\ cacheFile = i.cacheFile
       /\ dirExists = i.dirExists
       /\ configFile = i.configFile
       /\ config = loadConfig(i.configFile)
       /\ env = i.env
       /\ noCache = i.noCache
       /\ fault = i.fault
  /\ logFile = << >>
  /\ clock = 0
  /\ proc = [p \in Procs |-> IdleProc]
  /\ prev = Null
  /\ parallel = Cardinality(Procs)
  /\ api = Null
  /\ logger = IdleLogger
  /\ settings = NoSettings
  /\ stopHook = IdleStop
  /\ written = Holds(cacheFile)

NextConcurrent ==
  \/ \E p \in Procs, l \in ConcurrentLaunches : Start(p, l.stdin, l.cwd)
  \/ \E p \in Procs : CacheLookup(p)
  \/ \E p \in Procs : QueryLLM(p)
  \/ \E p \in Procs, reply \in Replies : LLMRespond(p, reply)
  \/ \E p \in Procs : PutLoad(p)
  \/ \E p \in Procs : PutSave(p)
  \/ \E p \in Procs : LogApproval(p)
  \/ \E p \in Procs : WriteOutput(p)

SpecConcurrent == InitConcurrent /\ [][NextConcurrent]_vars

----------------------------------------------------------------------------
(* One request under every credential setup *)

AuthMethods == {"beyondthehype", "openai-compatible", "anthropic-compatible"}

AllCredentials ==
  {[authMethod |-> a, keys |-> k, env |-> v] :
     a \in AuthMethods \cup {"unset"}, k \in SUBSET ConfigKeys,
     v \in SUBSET EnvKeys}

ClientLaunches == {Launch(Envelope("s1", "Bash", InputLs), "/p")}

InitClient ==
  /\ \E c \in AllCredentials :
       /\ configFile = ConfigFileOf(Config(TRUE, FALSE, c))
       /\ config = loadConfig(configFile)
       /\ env = c.env
  /\ cacheFile = CacheAbsent
  /\ dirExists = TRUE
  /\ noCache = FALSE
  /\ fault = "none"
  /\ logFile = << >>
  /\ clock = 0
  /\ proc = [p \in Procs |-> IdleProc]
  /\ prev = Null
  /\ parallel = 1
  /\ api = Null
  /\ logger = IdleLogger
  /\ settings = NoSettings
  /\ stopHook = IdleStop
  /\ written = {}

NextClient ==
  \/ \E p \in Procs, l \in ClientLaunches : Start(p, l.stdin, l.cwd)
  \/ \E p \in Procs : CacheLookup(p)
  \/ \E p \in Procs : QueryLLM(p)
  \/ \E p \in Procs, reply \in Replies : LLMRespond(p, reply)
  \/ \E p \in Procs : LogApproval(p)
  \/ \E p \in Procs : WriteOutput(p)

SpecClient == InitClient /\ [][NextClient]_vars

Next ==
  \/ \E p \in Procs, l \in Launches : Start(p, l.stdin, l.cwd)
  \/ \E p \in Procs : CacheLookup(p)
  \/ \E p \in Procs : QueryLLM(p)
  \/ \E p \in Procs, reply \in Replies : LLMRespond(p, reply)
  \/ \E p \in Procs : PutLoad(p)
  \/ \E p \in Procs : PutSave(p)
  \/ \E p \in Procs : LogApproval(p)
  \/ \E p \in Procs : WriteOutput(p)
  \/ \E p \in Procs : Exit(p)
  \/ ClearCache

Spec == Init /\ [][Next]_vars

----------------------------------------------------------------------------
(* The ApprovalLogger of one process, called several times *)

MaxLogCalls == 3
MaxLogTicks == 1

\* const logKey = `${entry.session_id}-${entry.datetime}`
logKey(entry) == <<entry.session_id, entry.datetime>>

\* Mutant: no look at pendingWrites; every call writes.
ApprovalLogger_logApproval_NoGuard(lg, entry) ==
  [pendingWrites |->
     [k \in DOMAIN lg.pendingWrites \cup {logKey(entry)} |->
        IF k = logKey(entry) THEN entry ELSE lg.pendingWrites[k]],
   calls |-> Append(lg.calls, [entry |-> entry, pc |-> "writing"]),
   attempts |-> Append(lg.attempts, logKey(entry))]

\* ApprovalLogger.logApproval(entry), up to its await: with a pending write
\* for the key the call awaits it; otherwise performWrite(entry) is started
\* and its promise is set in pendingWrites. attempts lists the keys of the
\* performWrite calls made.
ApprovalLogger_logApproval(lg, entry) ==
  IF logKey(entry) \in DOMAIN lg.pendingWrites
  THEN [lg EXCEPT !.calls = Append(@, [entry |-> entry, pc |-> "awaiting"])]
  ELSE [pendingWrites |->
          [k \in DOMAIN lg.pendingWrites \cup {logKey(entry)} |->
             IF k = logKey(entry) THEN entry ELSE lg.pendingWrites[k]],
        calls |-> Append(lg.calls, [entry |-> entry, pc |-> "writing"]),
        attempts |-> Append(lg.attempts, logKey(entry))]

LoggerSessions == {"s1", "s2"}
LoggerTools == {"Bash", "Read"}

\* logApproval(toolName, toolInput, decision, reason, sessionId): the entry
\* is stamped with the current time and handed to the logger.
LoggerCall(toolName, sessionId) ==
  /\ Len(logger.calls) < MaxLogCalls
  /\ logger' = ApprovalLogger_logApproval(logger,
                  LogEntry(clock, toolName, InputLs, ReasonSafe, "allow", "/p",
                           sessionId))
  /\ UNCHANGED <<cacheFile, logFile, dirExists, config, configFile, env,
                 noCache, fault, clock, proc, prev, parallel, api, written,
                 settings, stopHook>>

\* The write of call i settles: performWrite has appended the line or
\* swallowed the error, the finally block deletes the key, and the calls
\* awaiting the promise return.
WriteSettles(i) ==
  /\ i \in DOMAIN logger.calls
  /\ logger.calls[i].pc = "writing"
  /\ LET key == logKey(logger.calls[i].entry)
         appended == performWrite(logger.calls[i].entry, logFile, dirExists,
                                  fault)
     IN /\ logFile' = appended.log
        /\ dirExists' = appended.dir
        /\ logger' =
             [logger EXCEPT
                !.pendingWrites = [k \in DOMAIN @ \ {key} |-> @[k]],
                !.calls = [j \in DOMAIN @ |->
                             IF j = i \/ (@[j].pc = "awaiting"
                                          /\ logKey(@[j].entry) = key)
                             THEN [@[j] EXCEPT !.pc = "returned"]
                             ELSE @[j]]]
  /\ UNCHANGED <<cacheFile, config, configFile, env, noCache, fault, clock,
                 proc, prev, parallel, api, written, settings, stopHook>>

\* A millisecond passes.
LoggerTick ==
  /\ clock < MaxLogTicks
  /\ clock' = clock + 1
  /\ UNCHANGED <<cacheFile, logFile, dirExists, config, configFile, env,
                 noCache, fault, proc, prev, parallel, api, written, logger,
                 settings, stopHook>>

InitLogger ==
  /\ dirExists \in BOOLEAN
  /\ fault \in {"none", "logAppend", "mkdir"}
  /\ cacheFile = CacheAbsent
  /\ configFile = ConfigAbsent
  /\ config = loadConfig(configFile)
  /\ env = DefaultCredential.env
  /\ noCache = FALSE
  /\ logFile = << >>
  /\ clock = 0
  /\ proc = [p \in Procs |-> IdleProc]
  /\ prev = Null
  /\ parallel = 1
  /\ api = Null
  /\ written = {}
  /\ logger = IdleLogger
  /\ settings = NoSettings
  /\ stopHook = IdleStop

NextLogger ==
  \/ \E t \in LoggerTools, sid \in LoggerSessions : LoggerCall(t, sid)
  \/ \E i \in 1..MaxLogCalls : WriteSettles(i)
  \/ LoggerTick

SpecLogger == InitLogger /\ [][NextLogger]_vars

----------------------------------------------------------------------------
(* One invocation of `ccb enforce-tests`, the Stop hook *)

\* Lines of a transcript: a user text, an assistant text, an entry without
\* a message, and a line that is not JSON.
LineUser == [json |-> TRUE, type |-> "message", role |-> "user"]
LineAssistant == [json |-> TRUE, type |-> "message", role |-> "assistant"]
LineSummary == [json |-> TRUE, type |-> "summary", role |-> ""]
LineGarbage == [json |-> FALSE, type |-> "", role |-> ""]

TranscriptMissing == [state |-> "missing", lines |-> << >>]
TranscriptUnreadable == [state |-> "unreadable", lines |-> << >>]
TranscriptText(lines) == [state |-> "text", lines |-> lines]

Transcripts ==
  {TranscriptMissing, TranscriptUnreadable,
   TranscriptText(<<LineGarbage>>),
   TranscriptText(<<LineGarbage, LineGarbage>>),
   TranscriptText(<<LineSummary>>),
   TranscriptText(<<LineUser, LineAssistant>>),
   TranscriptText(<<LineUser, LineGarbage, LineAssistant>>)}

\* The line yields a message.
IsMessage(line) == line.json /\ line.type # "summary" /\ line.role # ""

\* extractTextMessages(jsonlPath): readFileSync throws (Null) when the file
\* cannot be read; a line that JSON.parse rejects is skipped, as is an entry
\* without a message.
extractTextMessages(file) ==
  IF file.state # "text" THEN Null
  ELSE LET kept == SelectSeq(file.lines, IsMessage) IN
       [i \in DOMAIN kept |-> [role |-> kept[i].role]]

\* convertToXml(messages): one element for each message inside <Messages>
convertToXml(messages) ==
  <<"<Messages>">>
    \o [i \in DOMAIN messages |->
          IF messages[i].role = "user" THEN "<UserMessage>"
          ELSE "<AssistantMessage>"]
    \o <<"</Messages>">>

StopHookOutput(decision, reason) == [decision |-> decision, reason |-> reason]

\* The output written when the transcript cannot be analysed
NeutralOutput ==
  StopHookOutput("undefined",
                 <<"Could not parse conversation transcript for analysis">>)

\* The Stop envelopes: one that is not JSON, and the one the host sends.
StopEnvelopes == {[json |-> FALSE], [json |-> TRUE]}

\* StopDecisionSchema, as getStopDecisionJsonSchema states it
StopDecisionSchemaOk(obj) ==
  /\ {"decision", "reason"} \subseteq DOMAIN obj
  /\ obj["decision"] \in {"block", "undefined"}

StopReplies ==
  {TransportError, Content("none", Garbage),
   Content("none", JsonText(Decision("block", ReasonRisky))),
   Content("none", JsonText(Decision("undefined", ReasonSafe))),
   Content("json", JsonText(Decision("block", ReasonRisky))),
   Content("none", JsonText(Decision("allow", ReasonSafe)))}

\* queryLLM of enforce-tests for a reply: a StopDecision, or Null for a throw
queryStopResult(reply) ==
  IF ~chatCompletionOk(reply) THEN Null
  ELSE LET jsonData == cleanContent(reply) IN
       IF jsonData.json /\ StopDecisionSchemaOk(jsonData.obj)
       THEN Decision(jsonData.obj["decision"], jsonData.obj["reason"])
       ELSE Null

StopLaunched(stdin, file) ==
  [pc |-> "started", stdin |-> stdin, transcript |-> file,
   conversationHistory |-> << >>, exitCode |-> -1, stdout |-> Null,
   outputs |-> 0, stderr |-> << >>, llmCalls |-> 0, reply |-> Null]

\* The catch block of enforceTests
StopFailed(hook, message) ==
  [hook EXCEPT !.pc = "done", !.exitCode = 1,
               !.stderr = <<"Error processing stop hook input: ", message>>]

\* enforceTests up to the remote call: standard input is read and parsed, the
\* transcript is read and converted, the credential is checked, the client
\* built and the request sent.
enforceTests(stdin, file) ==
  /\ stopHook.pc = "idle"
  /\ clock < MaxInvocations
  /\ clock' = clock + 1
  /\ LET hook == StopLaunched(stdin, file)
         messages == extractTextMessages(file)
     IN stopHook' =
          IF ~stdin.json THEN StopFailed(hook, "SyntaxError")
          ELSE IF messages = Null
          THEN [hook EXCEPT !.pc = "done", !.exitCode = 0,
                            !.stdout = NeutralOutput, !.outputs = 1]
          ELSE IF ~canConfigureLLMClient(config, env)
          THEN StopFailed(hook, "No API key configured")
          ELSE IF ~getLLMClientOk(config, env)
          THEN StopFailed(hook, "API key is required")
          ELSE [hook EXCEPT !.pc = "waiting", !.llmCalls = 1,
                            !.conversationHistory = convertToXml(messages)]
  /\ UNCHANGED <<cacheFile, logFile, dirExists, config, configFile, env,
                 noCache, fault, proc, prev, parallel, api, written, logger,
                 settings>>

\* The remote call of enforce-tests returns or throws.
StopRespond(reply) ==
  /\ stopHook.pc = "waiting"
  /\ LET aiResponse == queryStopResult(reply) IN
     stopHook' =
       IF aiResponse = Null
       THEN [StopFailed(stopHook, "Failed to query API or parse its response")
               EXCEPT !.reply = reply]
       ELSE [stopHook EXCEPT !.pc = "done", !.exitCode = 0, !.reply = reply,
               !.stdout = StopHookOutput(aiResponse.decision,
                                         aiResponse.reason),
               !.outputs = 1]
  /\ UNCHANGED <<cacheFile, logFile, dirExists, config, configFile, env,
                 noCache, fault, clock, proc, prev, parallel, api, written,
                 logger, settings>>

\* The process of enforce-tests is gone.
StopExit ==
  /\ stopHook.pc = "done"
  /\ stopHook' = IdleStop
  /\ UNCHANGED <<cacheFile, logFile, dirExists, config, configFile, env,
                 noCache, fault, clock, proc, prev, parallel, api, written,
                 logger, settings>>

InitStop ==
  /\ \E c \in Credentials :
       /\ configFile = ConfigFileOf(Config(TRUE, TRUE, c))
       /\ config = loadConfig(configFile)
       /\ env = c.env
  /\ cacheFile = CacheAbsent
  /\ dirExists = TRUE
  /\ noCache = FALSE
  /\ fault = "none"
  /\ logFile = << >>
  /\ clock = 0
  /\ proc = [p \in Procs |-> IdleProc]
  /\ prev = Null
  /\ parallel = 1
  /\ api = Null
  /\ written = {}
  /\ logger = IdleLogger
  /\ settings = NoSettings
  /\ stopHook = IdleStop

NextStop ==
  \/ \E stdin \in StopEnvelopes, file \in Transcripts : enforceTests(stdin, file)
  \/ \E reply \in StopReplies : StopRespond(reply)
  \/ StopExit

SpecStop == InitStop /\ [][NextStop]_vars

----------------------------------------------------------------------------
(* install and uninstall: the hooks in ~/.claude/settings.json *)

MaxHostRuns == 3
MaxHostInvocations == 1

\* A hook command: the program it names and its subcommand. getCCBPath()
\* gives ccb when the package is installed globally and else the path of
\* dist/index.js under the current directory.
Command(path, sub) == [path |-> path, sub |-> sub]
CCBPaths == {"ccb", "/w/dist/index.js"}
OtherCommand == Command("other-command", "")

Matcher(pattern, hooks) == [matcher |-> pattern, hooks |-> hooks]

SectionAbsent == [t |-> "absent"]
SectionString(command) == [t |-> "string", v |-> command]
SectionArray(matchers) == [t |-> "array", v |-> matchers]

HookSections == {"PreToolUse", "Notification", "Stop", "PostToolUse"}

NoSections == [k \in HookSections |-> SectionAbsent]

\* settings.json as JSON: the hooks object when there is one, and the other
\* settings.
SettingsJson(hasHooks, hooks, other) ==
  [state |-> "json", hasHooks |-> hasHooks, hooks |-> hooks, other |-> other]
SettingsUnparseable == [state |-> "unparseable"]

\* loadClaudeSettings(settingsPath): {} when the file is absent or cannot be
\* parsed.
loadClaudeSettings(file) ==
  IF file.state = "json" THEN file ELSE SettingsJson(FALSE, NoSections, << >>)

\* createBackup(settingsPath): a copy of the file, when there is one.
createBackup(host) ==
  IF host.file.state = "absent" THEN host.backups
  ELSE host.backups \cup {host.file}

\* hook.command.includes('ccb ' + sub)
includes(command, sub) == command.path = "ccb" /\ command.sub = sub

\* The matchers of a section once the hooks that include the CCB command
\* are filtered out, and with them the matchers left without hooks.
filterMatchers(matchers, sub) ==
  LET Keep(command) == ~includes(command, sub)
      NonEmpty(m) == m.hooks # << >>
      stripped == [i \in DOMAIN matchers |->
                     [matchers[i] EXCEPT !.hooks = SelectSeq(@, Keep)]]
  IN SelectSeq(stripped, NonEmpty)

\* One array section of removeCCBHooks: the section after the filter, deleted
\* when empty, and whether hasChanges is set for it.
removeFromArray(section, sub) ==
  LET filtered == filterMatchers(section.v, sub) IN
  [section |-> IF filtered = << >> THEN SectionAbsent
               ELSE SectionArray(filtered),
   changed |-> Len(filtered) # Len(section.v) \/ filtered = << >>]

\* removeCCBHooks(settings): the settings object after the call and the
\* hasChanges it returns.
removeCCBHooks(json) ==
  IF ~json.hasHooks THEN [settings |-> json, hasChanges |-> FALSE]
  ELSE
    LET pre == json.hooks["PreToolUse"]
        preOut ==
          IF pre.t = "string"
          THEN IF includes(pre.v, "auto-approve-tools")
               THEN [section |-> SectionAbsent, changed |-> TRUE]
               ELSE [section |-> pre, changed |-> FALSE]
          ELSE IF pre.t = "array"
          THEN removeFromArray(pre, "auto-approve-tools")
          ELSE [section |-> pre, changed |-> FALSE]
        note == json.hooks["Notification"]
        noteOut == IF note.t = "array"
                   THEN removeFromArray(note, "notification")
                   ELSE [section |-> note, changed |-> FALSE]
        stop == json.hooks["Stop"]
        stopOut == IF stop.t = "array"
                   THEN removeFromArray(stop, "enforce-tests")
                   ELSE [section |-> stop, changed |-> FALSE]
        hooks == [json.hooks EXCEPT !["PreToolUse"] = preOut.section,
                                    !["Notification"] = noteOut.section,
                                    !["Stop"] = stopOut.section]
    IN [settings |-> [json EXCEPT !.hooks = hooks,
                                  !.hasHooks = (hooks # NoSections)],
        hasChanges |-> preOut.changed \/ noteOut.changed \/ stopOut.changed]

\* The hasCCBHooks test of uninstall
hasCCBHooks(json) ==
  /\ json.hasHooks
  /\ \/ /\ json.hooks["PreToolUse"].t = "string"
        /\ includes(json.hooks["PreToolUse"].v, "auto-approve-tools")
     \/ /\ json.hooks["PreToolUse"].t = "array"
        /\ \E i \in DOMAIN json.hooks["PreToolUse"].v :
             \E j \in DOMAIN json.hooks["PreToolUse"].v[i].hooks :
               includes(json.hooks["PreToolUse"].v[i].hooks[j],
                        "auto-approve-tools")
     \/ /\ json.hooks["Notification"].t = "array"
        /\ \E i \in DOMAIN json.hooks["Notification"].v :
             \E j \in DOMAIN json.hooks["Notification"].v[i].hooks :
               includes(json.hooks["Notification"].v[i].hooks[j],
                        "notification")
     \/ /\ json.hooks["Stop"].t = "array"
        /\ \E i \in DOMAIN json.hooks["Stop"].v :
             \E j \in DOMAIN json.hooks["Stop"].v[i].hooks :
               includes(json.hooks["Stop"].v[i].hooks[j], "enforce-tests")

\* handleConfigRemoval(options): rmSync of the installation directory, with
\* all it holds, when it exists and its removal is asked for.
handleConfigRemoval(removeConfig) ==
  IF dirExists /\ removeConfig
  THEN /\ dirExists' = FALSE
       /\ cacheFile' = CacheAbsent
       /\ logFile' = << >>
       /\ configFile' = ConfigAbsent
       /\ config' = loadConfig(ConfigAbsent)
  ELSE UNCHANGED <<dirExists, cacheFile, logFile, configFile, config>>

\* What a host command leaves in api: its name, the file it found, whether
\* it went past its early returns, and its exit code.
HostCall(op, before, proceeded, exitCode) ==
  [op |-> op, before |-> before, proceeded |-> proceeded,
   exitCode |-> exitCode]

\* uninstall(options): confirmUninstall stands for --non-interactive or the
\* answer yes, removeConfig for --remove-config or the answer yes.
uninstall(confirmUninstall, removeConfig) ==
  /\ settings.runs < MaxHostRuns
  /\ LET loaded == loadClaudeSettings(settings.file) IN
     IF settings.file.state = "absent" \/ ~hasCCBHooks(loaded)
     THEN /\ handleConfigRemoval(removeConfig)
          /\ settings' = [settings EXCEPT !.runs = @ + 1]
          /\ api' = HostCall("uninstall", settings.file, FALSE, 0)
     ELSE IF ~confirmUninstall
     THEN /\ settings' = [settings EXCEPT !.runs = @ + 1]
          /\ api' = HostCall("uninstall", settings.file, FALSE, 0)
          /\ UNCHANGED <<dirExists, cacheFile, logFile, configFile, config>>
     ELSE LET removed == removeCCBHooks(loaded) IN
          /\ settings' = [file |-> IF removed.hasChanges
                                    THEN removed.settings ELSE settings.file,
                           backups |-> createBackup(settings),
                           runs |-> settings.runs + 1]
          /\ handleConfigRemoval(removeConfig)
          /\ api' = HostCall("uninstall", settings.file, TRUE, 0)
  /\ UNCHANGED <<env, noCache, fault, clock, proc, prev, parallel, written,
                 logger, stopHook>>

\* The matcher install writes for a command
NewHook(command) == Matcher("*", <<command>>)

\* checkForExistingHooks(settings, preToolUseCommand, notificationCommand)
checkForExistingHooks(json, preToolUseCommand, notificationCommand) ==
  [preToolUse |->
     LET pre == json.hooks["PreToolUse"] IN
     IF pre.t = "string" THEN pre.v = preToolUseCommand
     ELSE IF pre.t = "array"
     THEN \E i \in DOMAIN pre.v : \E j \in DOMAIN pre.v[i].hooks :
            pre.v[i].hooks[j] = preToolUseCommand
     ELSE FALSE,
   notification |->
     LET note == json.hooks["Notification"] IN
     IF note.t = "array"
     THEN \E i \in DOMAIN note.v : \E j \in DOMAIN note.v[i].hooks :
            note.v[i].hooks[j] = notificationCommand
     ELSE FALSE]

\* addHooksToSettings: the three sections are set to the one new matcher.
addHooksToSettings(json, preToolUseCommand, notificationCommand, stopCommand) ==
  [json EXCEPT !.hasHooks = TRUE,
     !.hooks = [@ EXCEPT
       !["PreToolUse"] = SectionArray(<<NewHook(preToolUseCommand)>>),
       !["Notification"] = SectionArray(<<NewHook(notificationCommand)>>),
       !["Stop"] = SectionArray(<<NewHook(stopCommand)>>)]]

\* addHooksToExistingArray, and the push onto Stop that follows it in install
addHooksToExistingArray(json, preToolUseCommand, notificationCommand, stopCommand) ==
  [json EXCEPT
     !.hooks = [@ EXCEPT
       !["PreToolUse"] = SectionArray(<<NewHook(preToolUseCommand)>> \o @.v),
       !["Notification"] = SectionArray(<<NewHook(notificationCommand)>>),
       !["Stop"] = SectionArray((IF @.t = "array" THEN @.v ELSE << >>)
                                  \o <<NewHook(stopCommand)>>)]]

\* install(options), non-interactive, into the user settings: apiKey stands
\* for --api-key, ccbPath for what getCCBPath() returns.
install(ccbPath, apiKey) ==
  /\ settings.runs < MaxHostRuns
  /\ IF apiKey
     THEN LET saved == [loadConfig(configFile) EXCEPT
                          !.keys = @ \cup {"apiKey"},
                          !.authMethod = "openai-compatible"] IN
          /\ dirExists' = TRUE
          /\ configFile' = ConfigJson(saved, {})
          /\ config' = saved
     ELSE UNCHANGED <<dirExists, configFile, config>>
  /\ LET loaded == loadClaudeSettings(settings.file)
         preToolUseCommand == Command(ccbPath, "auto-approve-tools")
         notificationCommand == Command(ccbPath, "notification")
         stopCommand == Command(ccbPath, "enforce-tests")
         existingHooks == checkForExistingHooks(loaded, preToolUseCommand,
                                                notificationCommand)
         backups == createBackup(settings)
     IN IF existingHooks.preToolUse /\ existingHooks.notification
        THEN /\ settings' = [settings EXCEPT !.backups = backups,
                                              !.runs = @ + 1]
             /\ api' = HostCall("install", settings.file, FALSE, 0)
        ELSE IF loaded.hooks["PreToolUse"].t = "string"
        THEN /\ settings' = [settings EXCEPT !.backups = backups,
                                              !.runs = @ + 1]
             /\ api' = HostCall("install", settings.file, FALSE, 1)
        ELSE /\ settings' =
                  [file |-> IF loaded.hooks["PreToolUse"].t = "array"
                            THEN addHooksToExistingArray(loaded,
                                   preToolUseCommand, notificationCommand,
                                   stopCommand)
                            ELSE addHooksToSettings(loaded, preToolUseCommand,
                                   notificationCommand, stopCommand),
                   backups |-> backups,
                   runs |-> settings.runs + 1]
             /\ api' = HostCall("install", settings.file, TRUE, 0)
  /\ UNCHANGED <<cacheFile, logFile, env, noCache, fault, clock, proc, prev,
                 parallel, written, logger, stopHook>>

\* The user deletes one hook section of settings.json by hand.
UserRemovesSection(section) ==
  /\ settings.runs < MaxHostRuns
  /\ settings.file.state = "json"
  /\ settings.file.hasHooks
  /\ settings.file.hooks[section] # SectionAbsent
  /\ settings' = [settings EXCEPT !.file.hooks[section] = SectionAbsent,
                                  !.runs = @ + 1]
  /\ api' = HostCall("edit", settings.file, TRUE, 0)
  /\ UNCHANGED <<cacheFile, logFile, dirExists, config, configFile, env,
                 noCache, fault, clock, proc, prev, parallel, written, logger,
                 stopHook>>

CCBAutoApprove == Command("ccb", "auto-approve-tools")
CCBNotification == Command("ccb", "notification")
CCBEnforceTests == Command("ccb", "enforce-tests")
OtherSettings == <<"theme">>

\* The settings files install and uninstall are run on: none, one that is
\* not JSON, one without hooks, the string form of PreToolUse with the CCB
\* command and with another, a matcher that CCB shares with another hook,
\* the three CCB hooks beside other hooks, and hooks of the user alone.
HostSettingsFiles ==
  {SettingsAbsent, SettingsUnparseable,
   SettingsJson(FALSE, NoSections, OtherSettings),
   SettingsJson(TRUE, [NoSections EXCEPT
     !["PreToolUse"] = SectionString(CCBAutoApprove)], OtherSettings),
   SettingsJson(TRUE, [NoSections EXCEPT
     !["PreToolUse"] = SectionString(OtherCommand)], OtherSettings),
   SettingsJson(TRUE, [NoSections EXCEPT
     !["PreToolUse"] =
        SectionArray(<<Matcher("*", <<CCBAutoApprove, OtherCommand>>)>>)],
     OtherSettings),
   SettingsJson(TRUE, [NoSections EXCEPT
     !["PreToolUse"] = SectionArray(<<NewHook(CCBAutoApprove)>>),
     !["Notification"] =
        SectionArray(<<NewHook(CCBNotification), NewHook(OtherCommand)>>),
     !["Stop"] = SectionArray(<<NewHook(CCBEnforceTests)>>),
     !["PostToolUse"] = SectionArray(<<NewHook(OtherCommand)>>)],
     OtherSettings),
   SettingsJson(TRUE, [NoSections EXCEPT
     !["PreToolUse"] = SectionArray(<<Matcher("Bash", <<OtherCommand>>)>>),
     !["Notification"] = SectionArray(<<NewHook(OtherCommand)>>)],
     OtherSettings)}

\* The requests the host sends between the runs: a read-only tool.
HostLaunches == {Launch(Envelope("s1", "Read", InputLs), "/p")}

HostStart(p, stdin, cwd) ==
  /\ clock < MaxHostInvocations
  /\ Start(p, stdin, cwd)

InitHost ==
  /\ \E f \in HostSettingsFiles :
       settings = [file |-> f, backups |-> {}, runs |-> 0]
  /\ dirExists \in BOOLEAN
  /\ cacheFile = CacheAbsent
  /\ configFile = ConfigAbsent
  /\ config = loadConfig(configFile)
  /\ env = DefaultCredential.env
  /\ noCache = FALSE
  /\ fault = "none"
  /\ logFile = << >>
  /\ clock = 0
  /\ proc = [p \in Procs |-> IdleProc]
  /\ prev = Null
  /\ parallel = 1
  /\ api = Null
  /\ written = {}
  /\ logger = IdleLogger
  /\ stopHook = IdleStop

NextHost ==
  \/ \E ccbPath \in CCBPaths, apiKey \in BOOLEAN : install(ccbPath, apiKey)
  \/ \E confirmUninstall \in BOOLEAN, removeConfig \in BOOLEAN :
       uninstall(confirmUninstall, removeConfig)
  \/ \E section \in HookSections : UserRemovesSection(section)
  \/ \E p \in Procs, l \in HostLaunches : HostStart(p, l.stdin, l.cwd)
  \/ \E p \in Procs : LogApproval(p)
  \/ \E p \in Procs : WriteOutput(p)
  \/ \E p \in Procs : Exit(p)

SpecHost == InitHost /\ [][NextHost]_vars

----------------------------------------------------------------------------
(* The commands the system prompt rules on, before the reasoning client *)

InputPushMain == << <<"command", "git push -f origin main">> >>
InputPushFeature == << <<"command", "git push -f origin feature-x">> >>

\* The decision the system prompt asks the reasoning client for: deny for
\* the recursive deletion of the root directory and for a force push to a
\* protected branch, allow for a force push to a feature branch and for
\* the ordinary development commands.
SystemPromptDecision(toolInput) ==
  CASE toolInput = InputRm -> "deny"
    [] toolInput = InputPushMain -> "deny"
    [] toolInput = InputPushFeature -> "allow"
    [] OTHER -> "allow"

PromptLaunches ==
  {Launch(Envelope("s1", "Bash", i), "/p") :
     i \in {InputRm, InputPushMain, InputPushFeature}}

\* A fresh installation: default configuration, a key in the environment,
\* no cache file yet.
InitPrompt ==
  /\ cacheFile = CacheAbsent
  /\ dirExists = TRUE
  /\ configFile = ConfigAbsent
  /\ config = loadConfig(configFile)
  /\ env = DefaultCredential.env
  /\ noCache = FALSE
  /\ fault = "none"
  /\ logFile = << >>
  /\ clock = 0
  /\ proc = [p \in Procs |-> IdleProc]
  /\ prev = Null
  /\ parallel = 1
  /\ api = Null
  /\ logger = IdleLogger
  /\ settings = NoSettings
  /\ stopHook = IdleStop
  /\ written = {}

NextPrompt ==
  \/ \E p \in Procs, l \in PromptLaunches : Start(p, l.stdin, l.cwd)
  \/ \E p \in Procs : CacheLookup(p)
  \/ \E p \in Procs : QueryLLM(p)
  \/ \E p \in Procs, reply \in Replies : LLMRespond(p, reply)
  \/ \E p \in Procs : PutLoad(p)
  \/ \E p \in Procs : PutSave(p)
  \/ \E p \in Procs : LogApproval(p)
  \/ \E p \in Procs : WriteOutput(p)
  \/ \E p \in Procs : Exit(p)

SpecPrompt == InitPrompt /\ [][NextPrompt]_vars

----------------------------------------------------------------------------
(* An invocation left to run: the process takes every step it can *)

\* The steps of the process itself are taken when they can be.  The answer
\* of the remote call is not a step of the process: create() is awaited
\* with no timeout and no abort signal, so nothing obliges it to return.
ProcessRuns ==
  \A p \in Procs :
    /\ WF_vars(CacheLookup(p))
    /\ WF_vars(QueryLLM(p))
    /\ WF_vars(PutLoad(p))
    /\ WF_vars(PutSave(p))
    /\ WF_vars(LogApproval(p))
    /\ WF_vars(WriteOutput(p))

SpecLive == InitPrompt /\ [][NextPrompt]_vars /\ ProcessRuns

\* The same, with a remote call that always comes back, with a reply or
\* with an error.
RemoteAnswers ==
  \A p \in Procs : WF_vars(\E reply \in Replies : LLMRespond(p, reply))

SpecLiveAnswered == SpecLive /\ RemoteAnswers

----------------------------------------------------------------------------
(* Properties *)

FastPathTools == FAST_APPROVE_TOOLS \cup SAFE_WRITE_TOOLS

\* C1: a request for a read-only or safe-write tool is allowed, whatever its
\* input, the cache, the configuration and the credentials: it never reads the
\* cache, never calls the reasoning client and ends with exit 0 and Allow.
C1_FastPathAllows ==
  \A p \in Procs :
    proc[p].tool \in FastPathTools =>
      /\ proc[p].llmCalls = 0
      /\ proc[p].cacheReads = 0
      /\ proc[p].pc \in {"log", "output", "done"}
      /\ proc[p].output # Null
      /\ proc[p].output.permissionDecision = "allow"
      /\ proc[p].pc = "done" =>
           /\ proc[p].exitCode = 0
           /\ proc[p].stdout = proc[p].output

\* A safe-write request has been allowed with no credential configured.
C1_Witness ==
  \E p \in Procs :
    /\ proc[p].tool \in SAFE_WRITE_TOOLS
    /\ proc[p].pc = "done"
    /\ proc[p].exitCode = 0
    /\ proc[p].stdout.permissionDecision = "allow"
    /\ ~canConfigureLLMClient(config, env)

\* C2: a request for ExitPlanMode is answered Ask before the cache is
\* consulted, even when the cache holds Allow for the identical request.
C2_PlanExitAlwaysAsks ==
  \A p \in Procs :
    proc[p].tool = "ExitPlanMode" =>
      /\ proc[p].llmCalls = 0
      /\ proc[p].cacheReads = 0
      /\ proc[p].pc \in {"log", "output", "done"}
      /\ proc[p].output # Null
      /\ proc[p].output.permissionDecision = "ask"
      /\ proc[p].pc = "done" =>
           /\ proc[p].exitCode = 0
           /\ proc[p].stdout = proc[p].output

\* ExitPlanMode has been answered while the cache file, with caching enabled,
\* held Allow for that very request in that very directory.
C2_Witness ==
  \E p \in Procs :
    /\ proc[p].tool = "ExitPlanMode"
    /\ proc[p].pc = "done"
    /\ proc[p].stdout.permissionDecision = "ask"
    /\ cacheEnabled
    /\ cacheFile.state = "json"
    /\ lookup(cacheFile.data, proc[p].cwd, KeyOfRequest(p)) # Null
    /\ lookup(cacheFile.data, proc[p].cwd, KeyOfRequest(p)).decision = "allow"

\* C3: the persisted cache file never holds an entry whose decision is Ask:
\* its decisions are allow and deny (approve and block in a legacy file).
C3_NoAskInCacheFile ==
  cacheFile.state = "json" =>
    \A wd \in DOMAIN cacheFile.data :
      \A k \in DOMAIN cacheFile.data[wd] :
        cacheFile.data[wd][k].decision \in {"allow", "deny", "approve", "block"}

\* The reasoning client has answered Ask, with caching enabled and a cache
\* file in place, and the invocation has ended with that verdict.
C3_Witness ==
  \E p \in Procs :
    /\ proc[p].pc = "done"
    /\ proc[p].exitCode = 0
    /\ proc[p].via = "llm"
    /\ proc[p].stdout.permissionDecision = "ask"
    /\ cacheEnabled
    /\ cacheFile.state = "json"

\* The next invocation repeats the request of the one that exited before it,
\* which returned Allow or Deny; caching is enabled and the file is readable.
Repeats(p) ==
  /\ proc[p].pc = "done"
  /\ proc[p].after # Null
  /\ cacheEnabled
  /\ fault # "cacheRead"
  /\ proc[p].after.exitCode = 0
  /\ proc[p].after.stdout.permissionDecision \in {"allow", "deny"}
  /\ proc[p].after.tool = proc[p].tool
  /\ proc[p].after.input = proc[p].input
  /\ proc[p].after.cwd = proc[p].cwd

\* C5 as claimed: a repeated request returns the same decision, annotated as
\* served from the cache, without a reasoning-client call.
C5_Idempotent_AsClaimed ==
  \A p \in Procs :
    Repeats(p) =>
      /\ proc[p].exitCode = 0
      /\ proc[p].stdout.permissionDecision =
           proc[p].after.stdout.permissionDecision
      /\ EndsWithCached(proc[p].stdout.permissionDecisionReason)
      /\ proc[p].llmCalls = 0

\* C5 (amended): a repeated request that the fast path does not resolve
\* returns the same decision and the same reason with the suffix ' (cached)',
\* without a reasoning-client call.
C5_Idempotent ==
  \A p \in Procs :
    (Repeats(p) /\ proc[p].after.via # "fast") =>
      /\ proc[p].exitCode = 0
      /\ proc[p].stdout.permissionDecision =
           proc[p].after.stdout.permissionDecision
      /\ proc[p].stdout.permissionDecisionReason =
           IF proc[p].after.via = "llm"
           THEN proc[p].after.stdout.permissionDecisionReason \o CachedSuffix
           ELSE proc[p].after.stdout.permissionDecisionReason
      /\ EndsWithCached(proc[p].stdout.permissionDecisionReason)
      /\ proc[p].llmCalls = 0

\* A request denied by the reasoning client has been repeated and served.
C5_Witness ==
  \E p \in Procs :
    /\ Repeats(p)
    /\ proc[p].after.via = "llm"
    /\ proc[p].after.stdout.permissionDecision = "deny"
    /\ proc[p].exitCode = 0
    /\ proc[p].via = "cache"

\* The reply is a transport error, an empty content, or a content that is not
\* JSON for {decision: allow|deny|ask, reason}.
ReplyFails(reply) ==
  \/ reply.kind = "error"
  \/ reply.text.empty
  \/ reply.fence = "unmatched"
  \/ ~reply.text.json
  \/ "decision" \notin DOMAIN reply.text.obj
  \/ "reason" \notin DOMAIN reply.text.obj
  \/ reply.text.obj["decision"] \notin {"allow", "deny", "ask"}

\* C7: when the reasoning step fails, the invocation ends with exit 1 and a
\* diagnostic, with no verdict in its place, no output envelope, no cache
\* write and no approval-log entry.
C7_ReasoningFailureIsFatal ==
  \A p \in Procs :
    (proc[p].reply # Null /\ ReplyFails(proc[p].reply)) =>
      /\ proc[p].pc = "done"
      /\ proc[p].exitCode = 1
      /\ proc[p].output = Null
      /\ proc[p].stdout = Null
      /\ proc[p].stderr # << >>
      /\ proc[p].cacheWrites = 0
      /\ ~proc[p].logged

\* The remote call has returned a content that does not parse.
C7_Witness ==
  \E p \in Procs :
    /\ proc[p].reply # Null
    /\ proc[p].reply.kind = "content"
    /\ ~proc[p].reply.text.empty
    /\ ReplyFails(proc[p].reply)
    /\ proc[p].pc = "done"

\* The envelope is not JSON or lacks a required field.
EnvelopeMalformed(stdin) ==
  \/ ~stdin.json
  \/ \E f \in EnvelopeFields : f \notin DOMAIN stdin.obj

\* C8: a malformed input envelope ends the invocation with exit 1, a
\* diagnostic on standard error and no output envelope.
C8_MalformedInputFails ==
  \A p \in Procs :
    (proc[p].stdin # Null /\ EnvelopeMalformed(proc[p].stdin)) =>
      /\ proc[p].pc = "done"
      /\ proc[p].exitCode = 1
      /\ proc[p].stderr # << >>
      /\ proc[p].stdout = Null

\* An envelope that is JSON but lacks a field has been rejected.
C8_Witness ==
  \E p \in Procs :
    /\ proc[p].stdin # Null
    /\ proc[p].stdin.json
    /\ "transcript_path" \notin DOMAIN proc[p].stdin.obj
    /\ proc[p].pc = "done"
    /\ proc[p].exitCode = 1

\* C9 as claimed: an invocation ends in failure only for a malformed input
\* envelope, a missing credential or a failed reasoning call; a failure of the
\* cache file never does it.
C9_OnlyInputCredentialOrProviderFails ==
  \A p \in Procs :
    (proc[p].pc = "done" /\ proc[p].exitCode = 1) =>
      \/ ~proc[p].stdin.json
      \/ ~HookInputValid(proc[p].stdin.obj)
      \/ ~canConfigureLLMClient(config, env)
      \/ ~getLLMClientOk(config, env)
      \/ (proc[p].reply # Null /\ ReplyFails(proc[p].reply))

\* C10: the approval logger never raises: once the verdict is settled (by the
\* fast path, a cache hit or a completed write-through) the invocation ends
\* with exit 0 and that verdict, whether or not the log write succeeds; a
\* missing log directory is created and the entry appended when the file
\* system allows it.
C10_LoggerNeverRaises ==
  \A p \in Procs :
    (/\ proc[p].pc = "done"
     /\ config.log
     /\ proc[p].via \in {"fast", "cache"} \/ proc[p].cacheWrites > 0) =>
      /\ proc[p].exitCode = 0
      /\ proc[p].stdout # Null
      /\ proc[p].stdout = proc[p].output
      /\ fault = "none" => (dirExists /\ proc[p].logged)
      /\ proc[p].logged => dirExists

\* A log write has failed and the invocation has still returned its verdict.
C10_Witness ==
  \E p \in Procs :
    /\ proc[p].pc = "done"
    /\ config.log
    /\ fault \in {"logAppend", "mkdir"}
    /\ ~proc[p].logged
    /\ proc[p].exitCode = 0
    /\ proc[p].stdout # Null

----------------------------------------------------------------------------
(* Cache module properties, under SpecCache *)

\* C4: cache isolation.  Whatever a get returns for (toolName, toolInput)
\* under a working directory was given to the cache under exactly that
\* directory string: an entry written under another directory, even an alias
\* of the same path, is never returned.
C4_CacheIsolation ==
  (api # Null /\ api.op = "get" /\ api.result # Null) =>
    Given(api.workingDir, generateCacheKey(api.toolName, api.toolInput),
          api.result) \in written

\* A get under "/p/" finds nothing although the same request is held under
\* "/p" by a put.
C4_Witness ==
  /\ api # Null /\ api.op = "get" /\ api.workingDir = "/p/"
  /\ api.result = Null
  /\ \E g \in written :
       /\ g.workingDir = "/p"
       /\ g.cacheKey = generateCacheKey(api.toolName, api.toolInput)
       /\ g.entry.timestamp > 0

\* The last two calls are a put that returned and a get of the same request;
\* the cache file can be read.
PutThenGet ==
  /\ api # Null /\ api.op = "get"
  /\ fault # "cacheRead"
  /\ api.last # Null /\ api.last.op = "set" /\ ~api.last.threw
  /\ api.last.toolName = api.toolName
  /\ api.last.toolInput = api.toolInput
  /\ api.last.workingDir = api.workingDir

\* C6: round trip.  A put that returned, followed immediately by a get with
\* the same toolName, toolInput and workingDirectory reading the file the put
\* wrote, returns an entry whose decision and reason are the ones written.
C6_RoundTrip ==
  PutThenGet =>
    /\ api.result # Null
    /\ api.result.decision = api.last.decision
    /\ api.result.reason = api.last.reason

\* A deny put over a legacy file that held the request as approved, read back.
C6_Witness ==
  /\ PutThenGet
  /\ api.last.decision = "deny"
  /\ api.result # Null /\ api.result.decision = "deny"
  /\ api.workingDir = "/p"
  /\ api.toolInput = InputLs
----------------------------------------------------------------------------
(* Approval log properties, under SpecConcurrent *)

\* The line the invocation p gives to the logger, its datetime left open.
LineOf(p, line) ==
  /\ line.tool = proc[p].tool
  /\ line.inputs = proc[p].input
  /\ line.decision = proc[p].output.permissionDecision
  /\ line.reason = proc[p].output.permissionDecisionReason
  /\ line.cwd = proc[p].cwd
  /\ line.session_id = proc[p].session

\* The invocations that have come past their logApproval call.
PastLogging == {p \in Procs : proc[p].pc \in {"output", "done"} /\ proc[p].output # Null}

\* C11: audit completeness under concurrency.  With logging enabled and the
\* log file appendable, under every interleaving of the steps of concurrent
\* invocations, the log holds exactly one complete line for each invocation
\* that has come past its logApproval call and no other line: the number of
\* lines is the number of such invocations, and the lines can be matched one
\* to one with them.
C11_OneLogLineEach ==
  (config.log /\ fault = "none") =>
    /\ Len(logFile) = Cardinality(PastLogging)
    /\ \E f \in [PastLogging -> 1..Len(logFile)] :
         /\ \A p, q \in PastLogging : p # q => f[p] # f[q]
         /\ \A p \in PastLogging : LineOf(p, logFile[f[p]])

\* Two invocations with distinct payloads ran side by side, logged at the same
\* instant, and both have ended with their verdict.
C11_Witness ==
  /\ parallel = 2
  /\ \A p \in Procs : proc[p].pc = "done" /\ proc[p].exitCode = 0 /\ proc[p].overlapped
  /\ proc[1].input # proc[2].input
  /\ Len(logFile) = 2
  /\ logFile[1].datetime = logFile[2].datetime
  /\ logFile[1].session_id = logFile[2].session_id
----------------------------------------------------------------------------
(* Load policy *)

\* C12: loading the cache never raises.  When the cache file is absent or not
\* parseable, the lookup step of an invocation with caching enabled reads an
\* empty cache: it finds no entry, does not fail, and goes on to the
\* reasoning step.
C12_LoadNeverRaises ==
  [][\A p \in Procs :
       (/\ proc[p].pc = "lookup"
        /\ proc'[p].pc # "lookup"
        /\ cacheEnabled
        /\ cacheFile.state \in {"absent", "corrupt"}) =>
         /\ loadCache(cacheFile, dirExists, fault, clock).cache = EmptyStore
         /\ ~loadCache(cacheFile, dirExists, fault, clock).threw
         /\ proc'[p].pc = "reason"
         /\ proc'[p].cachedDecision = Null
         /\ proc'[p].exitCode = -1]_vars

\* An invocation has looked up an unparseable cache file and stands at the
\* reasoning step.
C12_Witness ==
  \E p \in Procs :
    /\ proc[p].pc = "reason"
    /\ proc[p].cacheReads = 1
    /\ cacheFile.state = "corrupt"
\* The file parses and can be read, but fails validation against the schema.
FailsValidation(file) ==
  /\ file.state = "json"
  /\ fault # "cacheRead"
  /\ ~parseApprovalCacheOk(file.data)

\* What the migration makes of a decision label; "" when it discards it.
Relabelled(entry) ==
  IF "decision" \notin DOMAIN entry THEN ""
  ELSE IF entry.decision \in {"approve", "allow"} THEN "allow"
  ELSE IF entry.decision \in {"block", "deny"} THEN "deny"
  ELSE ""

\* The store a load returns is the migration of the legacy store: each entry
\* of a known label is there under its directory and key with the current
\* label and its own toolName, toolInput and reason, and nothing else is.
IsMigrationOf(cache, legacy) ==
  /\ \A wd \in DOMAIN legacy : \A k \in DOMAIN legacy[wd] :
       IF Relabelled(legacy[wd][k]) = ""
       THEN lookup(cache, wd, k) = Null
       ELSE /\ lookup(cache, wd, k) # Null
            /\ lookup(cache, wd, k).decision = Relabelled(legacy[wd][k])
            /\ \A f \in {"toolName", "toolInput", "reason"} \cap
                            DOMAIN legacy[wd][k] :
                 lookup(cache, wd, k)[f] = legacy[wd][k][f]
  /\ \A wd \in DOMAIN cache :
       /\ wd \in DOMAIN legacy
       /\ DOMAIN cache[wd] # {}
       /\ DOMAIN cache[wd] \subseteq DOMAIN legacy[wd]

\* A direct call of the cache module loads the file in this step.
Loads == api' # api /\ api'.op \in {"get", "set"}

Persisted(loaded) ==
  /\ cacheFile' = CacheJson(loaded.cache)
  /\ parseApprovalCacheOk(cacheFile'.data)
  /\ ~loadCache(cacheFile', dirExists', fault, clock + 2).migrated
  /\ loadCache(cacheFile', dirExists', fault, clock + 2).cache = loaded.cache

\* C14 as claimed: after a load that ran the migration, the file holds exactly
\* the migrated cache and the next load runs no migration.
C14_MigrationPersisted_AsClaimed ==
  [][(Loads /\ api'.op = "get" /\ FailsValidation(cacheFile)) =>
       Persisted(loadCache(cacheFile, dirExists, fault, clock + 1))]_vars

\* C14 (amended): after a load that ran the migration and kept at least one
\* entry, the write-back succeeding, the file holds exactly the migrated
\* cache, and, the kept entries validating, the next load validates it and
\* runs no migration.  When the
\* migration keeps no entry, or the write-back fails, the file is left as it
\* was and the next load runs the migration again.
C14_MigrationPersisted ==
  [][(Loads /\ api'.op = "get" /\ FailsValidation(cacheFile)) =>
       LET loaded == loadCache(cacheFile, dirExists, fault, clock + 1) IN
       IF fault # "cacheWrite" /\ migrateLegacyCache(cacheFile.data, clock + 1) # EmptyStore
       THEN /\ cacheFile' = CacheJson(loaded.cache)
            /\ parseApprovalCacheOk(loaded.cache) => Persisted(loaded)
       ELSE /\ cacheFile' = cacheFile
            /\ loaded.cache = EmptyStore
            /\ loadCache(cacheFile', dirExists', fault, clock + 2).migrated]_vars

\* A get has migrated the legacy file, and the file now holds the current
\* labels.
C14_Witness ==
  /\ api # Null /\ api.op = "get" /\ api.migrated /\ api.at = 1
  /\ cacheFile = CacheJson(CurrentStore)
  /\ fault = "none"
----------------------------------------------------------------------------
(* clear() *)

\* The store is empty: there is no file, or the file holds {}.
Cleared(file) ==
  file.state = "absent" \/ (file.state = "json" /\ file.data = EmptyStore)

\* Every lookup of the file returns none.
NoneFound(file) ==
  \A t \in ToolNames, i \in ToolInputs, wd \in WorkingDirs :
    getCachedDecision(t, i, wd, file, dirExists, fault, clock + 1).entry = Null

----------------------------------------------------------------------------
(* Caching disabled *)

\* C16: with caching disabled by the configuration (cache = false) or by the
\* --no-cache flag, no step of an invocation reads or writes the cache: the
\* cache file changes only by the operator's clear (it is not created when
\* absent, nor rewritten when legacy), no invocation counts a cache read or
\* write or is served from the cache, no reason carries the cached
\* annotation, and the lookup step passes every request the fast path did not
\* resolve on to the reasoning step.
C16_DisabledCacheUntouched ==
  [][(~config.cache \/ noCache) =>
       /\ cacheFile' = cacheFile \/ ClearCache
       /\ \A p \in Procs :
            /\ proc'[p].cacheReads = 0
            /\ proc'[p].cacheWrites = 0
            /\ proc'[p].via # "cache"
            /\ proc'[p].output # Null =>
                 ~EndsWithCached(proc'[p].output.permissionDecisionReason)
            /\ (proc[p].pc = "lookup" /\ proc'[p].pc # "lookup") =>
                 proc'[p].pc = "reason"
            /\ (proc[p].pc = "waiting" /\ proc'[p].pc \notin {"waiting", "done"}) =>
                 proc'[p].pc = "log"]_vars

\* With --no-cache and no cache file, a Bash request has been allowed by the
\* reasoning client, and there is still no cache file.
C16_Witness ==
  \E p \in Procs :
    /\ noCache /\ config.cache
    /\ cacheFile.state = "absent"
    /\ proc[p].pc = "done" /\ proc[p].exitCode = 0
    /\ proc[p].tool = "Bash"
    /\ proc[p].via = "llm" /\ proc[p].llmCalls = 1
    /\ proc[p].stdout.permissionDecision = "allow"
----------------------------------------------------------------------------
(* Cache key *)

\* The same keys with the same values, in any order.
StructurallyIdentical(input1, input2) ==
  /\ {input1[n] : n \in DOMAIN input1} = {input2[n] : n \in DOMAIN input2}
  /\ Len(input1) = Len(input2)

\* C17 as claimed: two requests with the same tool name and structurally
\* identical tool input get the same cache key, so a decision put for one is
\* returned by the get for the other in the same working directory.
C17_KeyIgnoresKeyOrder ==
  (/\ api # Null /\ api.op = "get" /\ fault # "cacheRead"
   /\ api.last # Null /\ api.last.op = "set" /\ ~api.last.threw
   /\ api.last.toolName = api.toolName
   /\ api.last.workingDir = api.workingDir
   /\ StructurallyIdentical(api.last.toolInput, api.toolInput)) =>
    /\ generateCacheKey(api.last.toolName, api.last.toolInput) =
         generateCacheKey(api.toolName, api.toolInput)
    /\ api.result # Null
    /\ api.result.decision = api.last.decision
----------------------------------------------------------------------------
(* No eviction *)

\* The keys of every request that is put, looked up or held by a file here.
AllKeys ==
  {generateCacheKey(t, i) : t \in OtherTools, i \in ToolInputs \cup ReorderedInputs}

\* What a get of (workingDir, cacheKey) returns from the file.
Retrievable(file, workingDir, cacheKey, now) ==
  lookup(loadCache(file, dirExists, fault, now).cache, workingDir, cacheKey)

----------------------------------------------------------------------------
(* Provider selection, under SpecClient *)

\* The credentials of each provider that are available.
HasProxyKey == "beyondthehypeApiKey" \in config.keys
HasOpenAIKey == "openaiApiKey" \in config.keys \/ "OPENAI_API_KEY" \in env
HasAnthropicKey ==
  \/ "anthropicApiKey" \in config.keys
  \/ "apiKey" \in config.keys
  \/ "ANTHROPIC_API_KEY" \in env

\* C19: with no authMethod in the configuration, the client an invocation
\* constructs has the provider of the first available credential in the order
\* managed proxy, OpenAI, Anthropic, and keeps it for as long as the process
\* lives; with no credential at all no client is constructed and the invocation
\* fails before any remote call.
C19_ProviderPrecedence ==
  [][\A p \in Procs :
       config.authMethod = "unset" =>
         /\ proc'[p].client # Null =>
              proc'[p].client.authMethod =
                IF HasProxyKey THEN "beyondthehype"
                ELSE IF HasOpenAIKey THEN "openai-compatible"
                ELSE "anthropic-compatible"
         /\ (proc[p].pc = "reason" /\ proc'[p].pc # "reason") =>
              IF HasProxyKey \/ HasOpenAIKey \/ HasAnthropicKey
              THEN proc'[p].client # Null /\ proc'[p].pc = "waiting"
              ELSE /\ proc'[p].client = Null
                   /\ proc'[p].pc = "done" /\ proc'[p].exitCode = 1
                   /\ proc'[p].llmCalls = 0
         /\ proc[p].client # Null => proc'[p].client = proc[p].client]_vars

\* With an Anthropic key in the configuration and an OpenAI key in the
\* environment, the request has gone to OpenAI.
C19_Witness ==
  \E p \in Procs :
    /\ config.authMethod = "unset"
    /\ config.keys = {"anthropicApiKey"}
    /\ env = {"OPENAI_API_KEY"}
    /\ proc[p].pc = "done" /\ proc[p].exitCode = 0
    /\ proc[p].client # Null
    /\ proc[p].client.authMethod = "openai-compatible"
\* A credential is present both in the configuration file and the environment.
OpenAIKeyInBoth == "openaiApiKey" \in config.keys /\ "OPENAI_API_KEY" \in env
AnthropicKeyInBoth ==
  /\ {"anthropicApiKey", "apiKey"} \cap config.keys # {}
  /\ "ANTHROPIC_API_KEY" \in env

ConfigKeySources ==
  {"config.beyondthehypeApiKey", "config.openaiApiKey",
   "config.anthropicApiKey", "config.apiKey"}

\* C20 as claimed: when a credential is present both in the configuration
\* file and in the environment, the key sent with the remote call is a
\* configuration-file value.
C20_ConfigBeatsEnv_AsClaimed ==
  \A p \in Procs :
    (proc[p].client # Null /\ (OpenAIKeyInBoth \/ AnthropicKeyInBoth)) =>
      proc[p].client.apiKey \in ConfigKeySources

\* C20 (amended): when the credential of the provider that was selected is
\* present both in the configuration file and in the environment, the key
\* sent with the remote call is the configuration-file value.
C20_ConfigBeatsEnv ==
  \A p \in Procs :
    proc[p].client # Null =>
      /\ (proc[p].client.authMethod = "openai-compatible" /\ OpenAIKeyInBoth) =>
           proc[p].client.apiKey = "config.openaiApiKey"
      /\ (proc[p].client.authMethod = "anthropic-compatible" /\ AnthropicKeyInBoth) =>
           proc[p].client.apiKey =
             IF "anthropicApiKey" \in config.keys THEN "config.anthropicApiKey"
             ELSE "config.apiKey"
      /\ (config.authMethod = "unset" /\ ~HasProxyKey /\ OpenAIKeyInBoth) =>
           proc[p].client.authMethod = "openai-compatible"
      /\ (config.authMethod = "unset" /\ ~HasProxyKey /\ ~HasOpenAIKey
            /\ AnthropicKeyInBoth) =>
           proc[p].client.authMethod = "anthropic-compatible"

\* With apiKey in the configuration and ANTHROPIC_API_KEY in the environment,
\* and no other credential, the remote call has gone out with the
\* configuration value.
C20_Witness ==
  \E p \in Procs :
    /\ config.authMethod = "unset"
    /\ config.keys = {"apiKey"}
    /\ env = {"ANTHROPIC_API_KEY"}
    /\ proc[p].pc = "waiting"
    /\ proc[p].client # Null
    /\ proc[p].client.apiKey = "config.apiKey"
----------------------------------------------------------------------------
(* Failure kinds *)

\* A credential of the provider in force is available.
UsableCredential ==
  CASE config.authMethod = "unset" ->
         HasProxyKey \/ HasOpenAIKey \/ HasAnthropicKey
    [] config.authMethod = "beyondthehype" -> HasProxyKey
    [] config.authMethod = "openai-compatible" -> HasOpenAIKey
    [] config.authMethod = "anthropic-compatible" -> HasAnthropicKey
    [] OTHER -> FALSE

\* C21: with no usable credential, an invocation fails exactly when it
\* reaches the reasoning step: the step out of it ends the invocation with
\* exit 1, no output envelope and no remote call; no invocation with a
\* well-formed envelope fails anywhere else; and an invocation resolved by
\* the fast path or a cache hit ends with exit 0 and its verdict.
C21_NoCredentialFailsAtReasoning ==
  [][\A p \in Procs :
       (~UsableCredential /\ fault = "none") =>
         /\ (proc[p].pc = "reason" /\ proc'[p].pc # "reason") =>
              /\ proc'[p].pc = "done"
              /\ proc'[p].exitCode = 1
              /\ proc'[p].stdout = Null
              /\ proc'[p].stderr # << >>
         /\ proc'[p].llmCalls = 0
         /\ (proc[p].pc # "done" /\ proc'[p].pc = "done" /\ proc'[p].exitCode = 1) =>
              \/ proc[p].pc = "reason"
              \/ ~proc'[p].stdin.json
              \/ ~HookInputValid(proc'[p].stdin.obj)
         /\ (proc[p].pc # "done" /\ proc'[p].pc = "done"
               /\ proc'[p].via \in {"fast", "cache"}) =>
              /\ proc'[p].exitCode = 0
              /\ proc'[p].stdout # Null
              /\ proc'[p].stdout = proc'[p].output]_vars

\* With an auth method whose key is missing, one request has been served
\* from the cache with exit 0 and the next one has failed at the reasoning
\* step.
C21_Witness ==
  \E p \in Procs :
    /\ ~UsableCredential
    /\ config.authMethod = "openai-compatible"
    /\ prev # Null /\ prev.via = "cache" /\ prev.exitCode = 0
    /\ proc[p].pc = "done" /\ proc[p].exitCode = 1
    /\ proc[p].tool = "Bash"
    /\ proc[p].cacheReads = 1
\* The content parses into {decision: allow|deny|ask, reason}, as it is or
\* inside a ```json block.
Parses(reply) ==
  /\ reply.kind = "content"
  /\ ~reply.text.empty
  /\ reply.fence \in {"none", "json"}
  /\ reply.text.json
  /\ {"decision", "reason"} \subseteq DOMAIN reply.text.obj
  /\ reply.text.obj["decision"] \in {"allow", "deny", "ask"}

\* C22: a content that does not parse into {decision: allow|deny|ask, reason}
\* ends the invocation as a failure with no verdict, and every decision the
\* reasoning step hands over is allow, deny or ask, taken from a reply that
\* parses.
C22_UnparsedReplyNeverDefaults ==
  \A p \in Procs :
    /\ (proc[p].reply # Null /\ proc[p].reply.kind = "content"
          /\ ~Parses(proc[p].reply)) =>
         /\ proc[p].via = "none"
         /\ proc[p].output = Null
         /\ proc[p].stdout = Null
         /\ proc[p].exitCode = 1
    /\ proc[p].via = "llm" => Parses(proc[p].reply)
    /\ (proc[p].via = "llm" /\ proc[p].output # Null) =>
         /\ proc[p].output.permissionDecision \in {"allow", "deny", "ask"}
         /\ proc[p].output.permissionDecision
              = proc[p].reply.text.obj["decision"]

\* After an invocation that took its verdict from the reasoning step, one
\* has failed on a content whose JSON sits in a fence the pattern does not
\* match.
C22_Witness ==
  \E p \in Procs :
    /\ prev # Null /\ prev.via = "llm" /\ prev.exitCode = 0
    /\ proc[p].reply # Null
    /\ proc[p].reply.kind = "content"
    /\ proc[p].reply.fence = "unmatched"
    /\ proc[p].reply.text.json
    /\ proc[p].pc = "done" /\ proc[p].exitCode = 1
\* loadConfig() has nothing to return from config.json.
ConfigRejected ==
  \/ configFile.state \in {"absent", "unreadable", "unparseable"}
  \/ configFile.mistyped # {}

\* C23: when config.json is absent, unreadable, not JSON or fails validation,
\* the invocation runs with logging and caching enabled, whatever the file
\* says, and it fails only for what fails it under the defaults as well: a
\* malformed envelope, no credential in the environment, a failed reasoning
\* call or a file-system fault. A request the fast path resolves always ends
\* with exit 0, every successful one is logged, and without --no-cache every
\* allow or deny of the reasoning step is cached.
C23_BadConfigMeansDefaults ==
  ConfigRejected =>
    /\ config.log /\ config.cache
    /\ \A p \in Procs :
         /\ (proc[p].pc = "done" /\ proc[p].exitCode = 1) =>
              \/ ~proc[p].stdin.json
              \/ ~HookInputValid(proc[p].stdin.obj)
              \/ env = {} /\ proc[p].llmCalls = 0
              \/ proc[p].reply # Null /\ ReplyFails(proc[p].reply)
              \/ fault # "none"
         /\ (proc[p].pc = "done" /\ proc[p].via = "fast") =>
              proc[p].exitCode = 0
         /\ (proc[p].pc = "done" /\ proc[p].exitCode = 0 /\ fault = "none") =>
              /\ proc[p].logged
              /\ proc[p].stdout # Null
              /\ (proc[p].via = "llm" /\ ~noCache
                    /\ proc[p].stdout.permissionDecision # "ask")
                   => proc[p].cacheWrites = 1

\* Over a config.json whose log field is mistyped and which turns caching
\* off, an invocation has taken its verdict from the reasoning step, cached
\* and logged it, and ended with exit 0 after the warning.
C23_Witness ==
  \E p \in Procs :
    /\ configFile.state = "json" /\ configFile.mistyped = {"log"}
    /\ ~configFile.data.cache
    /\ proc[p].pc = "done" /\ proc[p].exitCode = 0
    /\ proc[p].via = "llm"
    /\ proc[p].cacheWrites = 1
    /\ proc[p].logged
    /\ proc[p].stderr # << >>
----------------------------------------------------------------------------
(* Decisions by origin *)

\* C24 as stated: every decision of the fast path or of the cache is allow
\* or deny.
C24_FastAndCachedNeverAsk_AsClaimed ==
  \A p \in Procs :
    (proc[p].via \in {"fast", "cache"} /\ proc[p].output # Null) =>
      proc[p].output.permissionDecision \in {"allow", "deny"}

\* C24: every decision served from the cache is allow or deny, the one of
\* the entry served; every decision of the fast path is allow, except for
\* ExitPlanMode, whose decision is ask; the fast path never denies.
C24_FastAndCachedDecisions ==
  \A p \in Procs :
    /\ (proc[p].via = "cache" /\ proc[p].output # Null) =>
         /\ proc[p].output.permissionDecision \in {"allow", "deny"}
         /\ proc[p].cachedDecision # Null
         /\ proc[p].output.permissionDecision = proc[p].cachedDecision.decision
    /\ (proc[p].via = "fast" /\ proc[p].output # Null) =>
         IF proc[p].tool = "ExitPlanMode"
         THEN proc[p].output.permissionDecision = "ask"
         ELSE proc[p].output.permissionDecision = "allow"

\* After an invocation served a deny from the cache, the fast path has
\* answered ask for ExitPlanMode.
C24_Witness ==
  \E p \in Procs :
    /\ prev # Null /\ prev.via = "cache"
    /\ prev.stdout # Null /\ prev.stdout.permissionDecision = "deny"
    /\ proc[p].via = "fast"
    /\ proc[p].tool = "ExitPlanMode"
    /\ proc[p].pc = "done"
    /\ proc[p].stdout.permissionDecision = "ask"
----------------------------------------------------------------------------
(* The pending-write guard of the logger *)

\* How many performWrite calls were made for the key.
Attempts(key) ==
  Cardinality({i \in DOMAIN logger.attempts : logger.attempts[i] = key})

LogKeys == {logKey(logger.calls[i].entry) : i \in DOMAIN logger.calls}

\* C25 as stated: in one process, at most one write is attempted for a
\* (session_id, datetime) pair.
C25_OneWritePerPair_AsClaimed ==
  \A key \in LogKeys : Attempts(key) <= 1

\* C25: while a write for a (session_id, datetime) pair is pending, a
\* logApproval call for the same pair awaits it and attempts no write of its
\* own, so at most one write per pair is in flight; the call returns when
\* that write settles, with nothing written for it. A call made after the
\* write has settled finds the pair forgotten and writes again.
C25_PendingWriteIsShared ==
  [][/\ \A key \in DOMAIN logger.pendingWrites :
          \A i \in DOMAIN logger'.calls \ DOMAIN logger.calls :
            logKey(logger'.calls[i].entry) = key =>
              /\ logger'.calls[i].pc = "awaiting"
              /\ logger'.attempts = logger.attempts
              /\ logFile' = logFile
     /\ \A i \in DOMAIN logger'.calls \ DOMAIN logger.calls :
          logKey(logger'.calls[i].entry) \notin DOMAIN logger.pendingWrites =>
            /\ logger'.calls[i].pc = "writing"
            /\ logger'.attempts
                 = Append(logger.attempts, logKey(logger'.calls[i].entry))
     /\ \A key \in DOMAIN logger'.pendingWrites :
          Cardinality({i \in DOMAIN logger'.calls :
                         /\ logger'.calls[i].pc = "writing"
                         /\ logKey(logger'.calls[i].entry) = key}) = 1
     /\ \A i \in DOMAIN logger'.calls :
          logger'.calls[i].pc \in {"writing", "awaiting"} =>
            logKey(logger'.calls[i].entry) \in DOMAIN logger'.pendingWrites
     /\ Len(logFile') <= Len(logger'.attempts)
     /\ \A i \in DOMAIN logger.calls :
          (logger.calls[i].pc = "awaiting" /\ logger'.calls[i].pc = "returned")
            => /\ Len(logFile') <= Len(logFile) + 1
               /\ \E j \in DOMAIN logger.calls :
                    /\ logger.calls[j].pc = "writing"
                    /\ logger'.calls[j].pc = "returned"
                    /\ logKey(logger.calls[j].entry)
                         = logKey(logger.calls[i].entry)
                    /\ logFile' \in {logFile,
                                     Append(logFile, logger.calls[j].entry)}]_vars

\* Two calls for one pair shared one write, which put one line in the log,
\* and a third call for the same pair, made after it, started a second one.
C25_Witness ==
  /\ Len(logger.calls) = 3
  /\ \A i \in 1..3 : logKey(logger.calls[i].entry) = <<"s1", 0>>
  /\ logger.calls[1].pc = "returned"
  /\ logger.calls[2].pc = "returned"
  /\ logger.calls[2].entry # logger.calls[1].entry
  /\ logger.calls[3].pc = "writing"
  /\ logger.attempts = << <<"s1", 0>>, <<"s1", 0>> >>
  /\ logFile = <<logger.calls[1].entry>>
----------------------------------------------------------------------------
(* One log entry for each verdict *)

\* The log step of invocation p is taken.
LogStep(p) == proc[p].pc = "log" /\ proc'[p].pc # "log"

\* C27: an invocation whose verdict is resolved, by the fast path, a cache
\* hit or the reasoning step, reaches its output through the log step alone,
\* takes that step once, and the step appends the one entry of its verdict
\* when config.log is set and the log can be written, and nothing when
\* config.log is unset; no other step touches the log.
C27_OneEntryPerVerdict ==
  [][/\ \A p \in Procs :
          LogStep(p) =>
            /\ proc[p].via \in {"fast", "cache", "llm"}
            /\ proc'[p].pc = "output"
            /\ (config.log /\ fault \notin {"logAppend", "mkdir"}) =>
                 logFile' = Append(logFile,
                   LogEntry(clock, proc[p].tool, proc[p].input,
                            proc[p].output.permissionDecisionReason,
                            proc[p].output.permissionDecision,
                            proc[p].cwd, proc[p].session))
            /\ ~config.log => logFile' = logFile
     /\ (\A p \in Procs : ~LogStep(p)) => logFile' = logFile
     /\ \A p \in Procs :
          /\ (proc[p].pc # "output" /\ proc'[p].pc = "output") => LogStep(p)
          /\ (proc[p].pc # "done" /\ proc'[p].pc = "done"
                /\ proc'[p].exitCode = 0) => proc[p].pc = "output"
          /\ (proc'[p].pc = "done" /\ proc'[p].exitCode = 0
                /\ fault \notin {"logAppend", "mkdir"}) =>
               proc'[p].logged = config.log]_vars

\* With logging enabled, a cache hit and then a verdict of the reasoning step
\* have each put one line in the log.
C27_Witness ==
  \E p \in Procs :
    /\ config.log
    /\ prev # Null /\ prev.via = "cache" /\ prev.exitCode = 0
    /\ proc[p].pc = "done" /\ proc[p].exitCode = 0
    /\ proc[p].via = "llm"
    /\ Len(logFile) = 2
    /\ logFile[1].tool = prev.tool
    /\ logFile[2].decision = proc[p].stdout.permissionDecision
----------------------------------------------------------------------------
(* The Stop hook and its transcript *)

\* The transcript cannot be read, or it is read and none of its lines can be
\* parsed.
TranscriptFails(file) ==
  \/ file.state \in {"missing", "unreadable"}
  \/ /\ file.state = "text"
     /\ file.lines # << >>
     /\ \A i \in DOMAIN file.lines : ~file.lines[i].json

\* C28: when the transcript of a well-formed Stop envelope cannot be read or
\* parsed, enforce-tests makes no call of the reasoning client and ends with
\* exit 0 and the one output envelope of the neutral verdict.
C28_TranscriptFailureIsNeutral ==
  (stopHook.pc # "idle" /\ stopHook.stdin.json
     /\ TranscriptFails(stopHook.transcript)) =>
    /\ stopHook.llmCalls = 0
    /\ stopHook.pc = "done"
    /\ stopHook.exitCode = 0
    /\ stopHook.outputs = 1
    /\ stopHook.stdout = NeutralOutput
----------------------------------------------------------------------------
(* The approval log over the life of an installation *)

\* C26: the approval log only grows: every step leaves the lines already
\* written in place, at the head of the file, whatever operation takes it.
C26_LogIsAppendOnly ==
  [][/\ Len(logFile) <= Len(logFile')
     /\ SubSeq(logFile', 1, Len(logFile)) = logFile]_vars

----------------------------------------------------------------------------
(* The hooks install and uninstall leave in settings.json *)

CCBSubcommands == {"auto-approve-tools", "notification", "enforce-tests"}

\* The section a CCB subcommand is hooked in.
SectionOf(sub) ==
  CASE sub = "auto-approve-tools" -> "PreToolUse"
    [] sub = "notification" -> "Notification"
    [] sub = "enforce-tests" -> "Stop"

\* What a section holds beside the hooks of the CCB command: its matchers
\* without them, less the matchers that held nothing else.
OtherHooks(json, sub) ==
  LET section == json.hooks[SectionOf(sub)] IN
  IF section.t = "array" THEN filterMatchers(section.v, sub)
  ELSE IF section.t = "string" /\ ~includes(section.v, sub) THEN <<section.v>>
  ELSE << >>

\* C29: after an uninstall that went through, settings.json holds no hook
\* whose command is ccb auto-approve-tools, ccb notification or ccb
\* enforce-tests; the other hooks of the three sections, the PostToolUse
\* section and the other settings are as they were.
C29_UninstallRemovesCCBHooksOnly ==
  (api # Null /\ api.op = "uninstall" /\ api.proceeded) =>
    /\ settings.file.state = "json"
    /\ ~hasCCBHooks(settings.file)
    /\ \A sub \in CCBSubcommands :
         OtherHooks(settings.file, sub) = OtherHooks(api.before, sub)
    /\ settings.file.hooks["PostToolUse"] = api.before.hooks["PostToolUse"]
    /\ settings.file.other = api.before.other

\* The places of settings.json where a hook of the CCB subcommand sits,
\* whatever the path of the program.
HookEntries(json, sub) ==
  UNION {LET section == json.hooks[k] IN
         IF section.t = "string"
         THEN IF section.v.path \in CCBPaths /\ section.v.sub = sub
              THEN {<<k, 0, 0>>} ELSE {}
         ELSE IF section.t = "array"
         THEN {<<k, i, j>> : i \in DOMAIN section.v, j \in 1..2} \cap
              {e \in {<<k, i, j>> : i \in DOMAIN section.v, j \in 1..2} :
                 /\ e[3] \in DOMAIN section.v[e[2]].hooks
                 /\ section.v[e[2]].hooks[e[3]].path \in CCBPaths
                 /\ section.v[e[2]].hooks[e[3]].sub = sub}
         ELSE {} : k \in HookSections}

\* C30: whatever installs, uninstalls and removals went before, settings.json
\* holds at most one hook entry for each CCB command, and an install that
\* found the CCB hooks in place left the file as it was.
C30_InstallNeverDuplicates ==
  /\ settings.file.state = "json" =>
       \A sub \in CCBSubcommands :
         Cardinality(HookEntries(settings.file, sub)) <= 1
  /\ (api # Null /\ api.op = "install" /\ ~api.proceeded) =>
       settings.file = api.before

----------------------------------------------------------------------------
(* The decisions of the worked examples *)

\* The invocation has written a verdict.
Decided(p) == proc[p].pc = "done" /\ proc[p].exitCode = 0 /\ proc[p].stdout # Null

----------------------------------------------------------------------------
(* The order of the stages of one invocation *)

\* The place of a stage in the order of autoApproveTools; the fast path
\* runs within the first step.
StageOf(pc) ==
  CASE pc = "idle" -> 0
    [] pc = "lookup" -> 1
    [] pc = "reason" -> 2
    [] pc = "waiting" -> 3
    [] pc = "put" -> 4
    [] pc = "save" -> 5
    [] pc = "log" -> 6
    [] pc = "output" -> 7
    [] pc = "done" -> 8

\* The step in which invocation p writes its output envelope.
OutputStep(p) ==
  proc[p].pc # "done" /\ proc'[p].pc = "done" /\ proc'[p].exitCode = 0

\* C32: no step takes an invocation back to an earlier stage; the reasoning
\* client is called at most once, from the reasoning stage alone, and a
\* failed call ends the invocation; when the output envelope is written the
\* write-through of a decision to be cached is done, the log step is
\* passed, and the step itself touches neither file.
C32_StagesInOrder ==
  [][\A p \in Procs :
       /\ proc[p].pc # "done" => StageOf(proc'[p].pc) >= StageOf(proc[p].pc)
       /\ proc[p].pc = "done" => proc'[p].pc \in {"done", "idle"}
       /\ proc'[p].llmCalls <= 1
       /\ proc'[p].llmCalls > proc[p].llmCalls => proc[p].pc = "reason"
       /\ (proc[p].pc = "waiting" /\ proc'[p].pc # "waiting"
             /\ queryLLMResult(proc'[p].reply) = Null) =>
            proc'[p].pc = "done" /\ proc'[p].exitCode = 1
       /\ OutputStep(p) =>
            /\ proc[p].pc = "output"
            /\ proc[p].cacheWrites =
                 IF proc[p].via = "llm"
                      /\ shouldCache(proc[p].output.permissionDecision)
                 THEN 1 ELSE 0
            /\ (config.log /\ fault \notin {"logAppend", "mkdir"}) =>
                 proc[p].logged
            /\ cacheFile' = cacheFile
            /\ logFile' = logFile]_vars

\* After an invocation ended on a failed call of the reasoning client, one
\* has written its output with the call made once, the decision written
\* through and the entry logged.
C32_Witness ==
  \E p \in Procs :
    /\ prev # Null /\ prev.exitCode = 1 /\ prev.tool = "Bash"
    /\ proc[p].pc = "done" /\ proc[p].exitCode = 0
    /\ proc[p].via = "llm"
    /\ proc[p].llmCalls = 1
    /\ proc[p].cacheWrites = 1
    /\ proc[p].logged

----------------------------------------------------------------------------
(* The cache file under concurrent invocations *)

\* The reasoning client returned the decision and reason of entry to
\* invocation p, run in workingDir for the request of cacheKey.
ReturnedTo(p, workingDir, cacheKey, entry) ==
  /\ proc[p].pc # "idle"
  /\ proc[p].cwd = workingDir
  /\ proc[p].reply # Null
  /\ queryLLMResult(proc[p].reply) # Null
  /\ entry.toolName = proc[p].tool
  /\ entry.toolInput = proc[p].input
  /\ cacheKey = generateCacheKey(entry.toolName, entry.toolInput)
  /\ entry.decision = queryLLMResult(proc[p].reply).decision
  /\ entry.reason = queryLLMResult(proc[p].reply).reason

\* The entry was in the cache file before the invocations were launched.
HeldAtLaunch(workingDir, cacheKey, entry) ==
  Given(workingDir, cacheKey, entry) \in GivenBy(CurrentStore)

\* C33: under every interleaving of the steps of concurrent invocations,
\* every entry of the cache file is one the file held before them or holds,
\* under the directory and the key of an invocation, the tool name, the
\* input and the decision and reason the reasoning client returned to that
\* invocation; and a decision served from the cache is such an entry.
C33_CacheHoldsReturnedDecisionsOnly ==
  /\ cacheFile.state = "json" =>
       \A wd \in DOMAIN cacheFile.data : \A k \in DOMAIN cacheFile.data[wd] :
         \/ HeldAtLaunch(wd, k, cacheFile.data[wd][k])
         \/ \E p \in Procs : ReturnedTo(p, wd, k, cacheFile.data[wd][k])
  /\ \A p \in Procs :
       proc[p].via = "cache" =>
         \/ HeldAtLaunch(proc[p].cwd, KeyOfRequest(p), proc[p].cachedDecision)
         \/ \E q \in Procs \ {p} :
              ReturnedTo(q, proc[p].cwd, KeyOfRequest(p), proc[p].cachedDecision)

\* Two invocations run side by side in two directories have both written
\* through, the second over a store loaded before the first wrote: the file
\* holds the entry of one of them and has lost the entry of the other.
C33_Witness ==
  /\ parallel = 2
  /\ \A p \in Procs : proc[p].cacheWrites = 1 /\ proc[p].overlapped
  /\ proc[1].cwd # proc[2].cwd
  /\ cacheFile.state = "json"
  /\ \E p \in Procs :
       /\ lookup(cacheFile.data, proc[p].cwd, KeyOfRequest(p)) # Null
       /\ ReturnedTo(p, proc[p].cwd, KeyOfRequest(p),
                     lookup(cacheFile.data, proc[p].cwd, KeyOfRequest(p)))
  /\ \E q \in Procs :
       lookup(cacheFile.data, proc[q].cwd, KeyOfRequest(q)) = Null

\* The second half of setCachedDecision is taken by invocation p.
SaveStep(p) == proc[p].pc = "save" /\ proc'[p].pc = "log"

\* C34: the write of setCachedDecision replaces the whole file by the store
\* the writer loaded, with its entry added: what another invocation wrote
\* after that load is not in the file any more.
C34_LastWriterWins ==
  [][\A p \in Procs :
       SaveStep(p) =>
         /\ cacheFile' = CacheJson(proc[p].mem)
         /\ lookup(proc[p].mem, proc[p].cwd, KeyOfRequest(p)) # Null
         /\ \A q \in Procs \ {p} :
              (/\ cacheFile.state = "json"
               /\ lookup(cacheFile.data, proc[q].cwd, KeyOfRequest(q)) # Null
               /\ lookup(proc[p].mem, proc[q].cwd, KeyOfRequest(q)) = Null) =>
                lookup(cacheFile'.data, proc[q].cwd, KeyOfRequest(q)) = Null]_vars

\* Two invocations for different requests loaded the absent cache before
\* either wrote; both have written, and the file holds the entry of the
\* second writer alone.
C34_Witness ==
  /\ parallel = 2
  /\ \A p \in Procs : proc[p].cacheWrites = 1 /\ proc[p].overlapped
  /\ proc[1].cwd = proc[2].cwd
  /\ KeyOfRequest(1) # KeyOfRequest(2)
  /\ cacheFile.state = "json"
  /\ DOMAIN cacheFile.data = {proc[1].cwd}
  /\ \E p \in Procs : DOMAIN cacheFile.data[proc[p].cwd] = {KeyOfRequest(p)}

----------------------------------------------------------------------------
(* Termination *)

\* C35: every invocation that was launched ends, with exit 0 or with exit
\* 1, whether or not the remote call answers.
C35_EveryInvocationEnds ==
  \A p \in Procs :
    (proc[p].pc # "idle") ~> (proc[p].pc = "done" /\ proc[p].exitCode \in {0, 1})

----------------------------------------------------------------------------
(* The migration and the current schema *)

\* C36: a load that runs the migration returns a cache every entry of which
\* validates against the current schema, and whatever the step writes to the
\* cache file validates too.
C36_MigratedCacheValidates ==
  [][(Loads /\ FailsValidation(cacheFile)) =>
       /\ parseApprovalCacheOk(loadCache(cacheFile, dirExists, fault, clock + 1).cache)
       /\ cacheFile' # cacheFile =>
            /\ cacheFile'.state = "json"
            /\ parseApprovalCacheOk(cacheFile'.data)]_vars

----------------------------------------------------------------------------
(* The log entry and the output envelope of one invocation *)

\* C37: when an invocation has written its verdict with logging enabled and
\* the log writable, the last line of the log is its entry: the decision and
\* the reason are those of the output envelope, the annotation of a cache
\* hit included, and the tool name, the tool input, the session id and the
\* working directory are those of the request.
C37_LogEntryMatchesOutput ==
  \A p \in Procs :
    (/\ proc[p].pc = "done" /\ proc[p].exitCode = 0
     /\ config.log /\ fault \notin {"logAppend", "mkdir"}) =>
      /\ proc[p].logged
      /\ Len(logFile) >= 1
      /\ LET entry == logFile[Len(logFile)] IN
         /\ entry.decision = proc[p].stdout.permissionDecision
         /\ entry.reason = proc[p].stdout.permissionDecisionReason
         /\ entry.tool = proc[p].tool
         /\ entry.inputs = proc[p].input
         /\ entry.session_id = proc[p].session
         /\ entry.cwd = proc[p].cwd
         /\ proc[p].via = "cache" =>
              /\ EndsWithCached(entry.reason)
              /\ entry.reason = Annotate(proc[p].cachedDecision.reason)

\* A decision of deny served from the cache has been logged and written
\* out, both with the annotated reason.
C37_Witness ==
  \E p \in Procs :
    /\ proc[p].pc = "done" /\ proc[p].exitCode = 0
    /\ proc[p].via = "cache"
    /\ proc[p].logged
    /\ proc[p].stdout.permissionDecision = "deny"
    /\ Len(logFile) >= 1
    /\ logFile[Len(logFile)].decision = "deny"
    /\ EndsWithCached(logFile[Len(logFile)].reason)

----------------------------------------------------------------------------
(* What a cache lookup leaves in the file *)

\* The lookup step of invocation p is taken.
LookupStep(p) == proc[p].pc = "lookup" /\ proc'[p].pc # "lookup"

\* No entry of the file has a reason that ends with the annotation.
NoAnnotationStored ==
  cacheFile.state = "json" =>
    \A wd \in DOMAIN cacheFile.data : \A k \in DOMAIN cacheFile.data[wd] :
      "reason" \in DOMAIN cacheFile.data[wd][k] =>
        ~EndsWithCached(cacheFile.data[wd][k].reason)

\* C38 as stated: a cache lookup, hit or miss, leaves the cache file as it
\* was.
C38_LookupLeavesFile_AsClaimed ==
  [][\A p \in Procs : LookupStep(p) => cacheFile' = cacheFile]_vars

\* C38: a cache lookup leaves the cache file as it was, unless the file
\* fails validation: then the load inside the lookup writes the migrated
\* cache over it (when the migration keeps an entry and the write goes
\* through).  A hit writes nothing: the entry stays as it was stored, the
\* reason served is the stored reason with one annotation, and no reason in
\* the file ever ends with the annotation.
C38_LookupLeavesFile ==
  [][/\ \A p \in Procs :
          LookupStep(p) =>
            /\ IF /\ cacheEnabled
                  /\ FailsValidation(cacheFile)
                  /\ fault # "cacheWrite"
                  /\ migrateLegacyCache(cacheFile.data, clock) # EmptyStore
               THEN cacheFile' = CacheJson(migrateLegacyCache(cacheFile.data, clock))
               ELSE cacheFile' = cacheFile
            /\ proc'[p].via = "cache" =>
                 /\ cacheFile'.state = "json"
                 /\ lookup(cacheFile'.data, proc[p].cwd, KeyOfRequest(p))
                      = proc'[p].cachedDecision
                 /\ parseApprovalCacheOk(cacheFile.data) => cacheFile' = cacheFile
                 /\ proc'[p].output.permissionDecisionReason
                      = proc'[p].cachedDecision.reason \o CachedSuffix
     /\ NoAnnotationStored => NoAnnotationStored']_vars

\* The same request has been served from the cache twice in a row, and the
\* file still holds the entry with its reason as it was stored.
C38_Witness ==
  \E p \in Procs :
    /\ prev # Null /\ prev.via = "cache" /\ prev.exitCode = 0
    /\ prev.tool = proc[p].tool /\ prev.input = proc[p].input
    /\ prev.cwd = proc[p].cwd
    /\ proc[p].via = "cache" /\ proc[p].pc = "done" /\ proc[p].exitCode = 0
    /\ cacheFile.state = "json"
    /\ lookup(cacheFile.data, proc[p].cwd, KeyOfRequest(p)) # Null
    /\ ~EndsWithCached(lookup(cacheFile.data, proc[p].cwd, KeyOfRequest(p)).reason)
    /\ proc[p].stdout.permissionDecisionReason = prev.stdout.permissionDecisionReason

----------------------------------------------------------------------------
(* The credential check and the construction of the client *)

\* C39: when canConfigureLLMClient() finds a credential, the client can be
\* constructed, whatever authMethod the configuration names, and an
\* invocation that fails has failed on the reply of the remote call, not
\* for lack of a key.
C39_CredentialCheckSuffices ==
  \A p \in Procs :
    (/\ canConfigureLLMClient(config, env)
     /\ proc[p].pc = "done" /\ proc[p].exitCode = 1) =>
      /\ getLLMClientOk(config, env)
      /\ proc[p].llmCalls = 1
      /\ proc[p].reply # Null


----------------------------------------------------------------------------
(* install undone by uninstall *)

\* C40: an uninstall that is confirmed and runs right after an install that
\* succeeded leaves settings.json without a hook of a CCB command, whether
\* install wrote the command as ccb or as the path of dist/index.js under the
\* current directory.
C40_UninstallUndoesInstall ==
  [][\A removeConfig \in BOOLEAN :
       (/\ api # Null
        /\ api.op = "install"
        /\ api.exitCode = 0
        /\ uninstall(TRUE, removeConfig)) =>
         \A sub \in CCBSubcommands : HookEntries(settings'.file, sub) = {}]_vars
====
